---- MODULE Spec2Model ----
(***************************************************************************)
(* Model of skio.Group (src/skio/group.py), a dict-like container with     *)
(* default values, typed values, custom getter/setter functions, nested    *)
(* Groups and write limitations.                                           *)
(*                                                                         *)
(* Group is meant to be subclassed.  The subclass modelled here, Example,  *)
(* is the union of the two subclasses of src/tests/test_group.py:          *)
(*   Example01: _default, _dtype, _funcbase, _set_f02/_get_f02,            *)
(*              _set_f12/_get_f12                                          *)
(*   Example02: the nested classes _Keygroup and _Group                    *)
(* Like them it leaves _readonly and _nonewkey at Group's False; the tests  *)
(* switch the flags by assigning the attribute of the instance.            *)
(*                                                                         *)
(* The module also models, each in a specification of its own:            *)
(*   SpecCodec    intencode and intdecode of src/skio/codec.py             *)
(*   SpecFile     File.load of src/skio/file.py                            *)
(*   SpecNew      the steps of Group.__new__ over the nested classes       *)
(*   SpecHeap     Group.__sizeof__ over arrays that share buffers          *)
(*   SpecThreads  two threads that run Group._writeenabled                 *)
(*   SpecCopy     Group.copy and the operations on the copy                *)
(*   SpecIter     the enumerations that run inside Group._iterall          *)
(***************************************************************************)
EXTENDS Integers, Sequences, FiniteSets, TLC

(***************************************************************************)
(* Bounds of the model.                                                    *)
(***************************************************************************)
\* number of Example instances constructed in one behaviour
MaxInstances == 2
\* nesting depth of "with self._writeenabled()" blocks
MaxDepth == 1
\* number of pairs of the mapping given to __init__ or of the source of update
MaxPairs == 2
\* number of dimensions of the arrays given to set
MaxRank == 3
\* number of elements of the arrays given to intencode and intdecode
MaxLen == 3
\* number of attributes of the class body of a File subclass
MaxAttrs == 2

(***************************************************************************)
(* Python values.  Every value is a record [t, v]: t is the Python type,   *)
(* v its content (floats in tenths, strings and bytes by their length,     *)
(* Groups by the identity of the instance, numpy arrays by their number of  *)
(* dimensions, with their element type in the field dtype).                *)
(***************************************************************************)
None == [t |-> "NoneType", v |-> 0]
PyInt(n) == [t |-> "int", v |-> n]
PyFloat(tenths) == [t |-> "float", v |-> tenths]
PyStr(len) == [t |-> "str", v |-> len]
PyBytes(len) == [t |-> "bytes", v |-> len]
GroupVal(id) == [t |-> "Group", v |-> id]
PyArray(cls, ndim, dtype) == [t |-> cls, v |-> ndim, dtype |-> dtype]

\* numpy.ndarray and its subclass numpy.ma.MaskedArray
ArrayTypes == {"ndarray", "MaskedArray"}

\* isinstance(value, Group)
IsGroup(value) == value.t = "Group"

\* The outcome of a call: the exception raised ("ok" when none) and the
\* value returned (None when the call returns nothing).
Ok(value) == [err |-> "ok", val |-> value]
Raise(exc) == [err |-> exc, val |-> None]

(***************************************************************************)
(* Mappings (Python dicts) are functions; their keys are the domain.       *)
(***************************************************************************)
EmptyMap == [k \in {} |-> None]
Put(map, key, value) ==
    [k \in (DOMAIN map) \cup {key} |-> IF k = key THEN value ELSE map[k]]
Del(map, key) == [k \in (DOMAIN map) \ {key} |-> map[k]]
\* dict.update(other)
DictUpdate(map, other) ==
    [k \in (DOMAIN map) \cup (DOMAIN other) |->
        IF k \in DOMAIN other THEN other[k] ELSE map[k]]

(***************************************************************************)
(* The class Example: keys and schema.                                     *)
(***************************************************************************)
KEYS == {"01", "02", "35", "10", "f12", "group"}

\* _default = {'01': 1, '02': 2.1, '03': None}
cls_default ==
    [k \in {"01", "02", "03"} |->
        CASE k = "01" -> PyInt(1)
          [] k = "02" -> PyFloat(21)
          [] k = "03" -> None]

\* A declared type: the base type and its named arguments (empty for the
\* classic typing "key: type").
DType(base, kwargs) == [base |-> base, kwargs |-> kwargs]
NoKwargs == [o \in {} |-> 0]

\* _dtype = {'01': int,
\*           '03': (np.ndarray, {'ndim': 2, 'dtype': np.float64}),
\*           '04': (np.ma.MaskedArray, {'copy': True}),
\*           '35': (str, {'encoding': 'utf-16'})} as the class statement
\* leaves it
cls_dtype0 ==
    [k \in {"01", "03", "04", "35"} |->
        CASE k = "01" -> DType("int", NoKwargs)
          [] k = "03" -> DType("ndarray", [ndim |-> 2, dtype |-> "float64"])
          [] k = "04" -> DType("MaskedArray", [copy |-> TRUE])
          [] k = "35" -> DType("str", [o \in {"encoding"} |-> 16])]

\* _funcbase = {'02': 'f02'}
cls_funcbase == [k \in {"02"} |-> "f02"]

\* basenames b for which the class defines _set_<b> and _get_<b>
cls_funcs == {"f02", "f12"}

\* The classes defined inside Example, by their key in cls.__dict__, with the
\* __name__ the class statement gives them: haskey is name.startswith('_Key'),
\* rest is name[len('_Key'):] when haskey and name otherwise.
ClassName(haskey, rest) == [haskey |-> haskey, rest |-> rest]
cls_attrs0 ==
    [a \in {"_Keygroup", "_Group"} |->
        IF a = "_Keygroup" THEN ClassName(TRUE, "group")
        ELSE ClassName(FALSE, "_Group")]

\* _readonly = False, _nonewkey = False
cls_readonly == FALSE
cls_nonewkey == FALSE

VARIABLES
    cls_dtype,      \* Example._dtype (class variable, a dict)
    cls_attrs,      \* __name__ of the classes defined inside Example
    inst,           \* number of instances constructed; the last one is "self"
    values,         \* self._values
    readonly,       \* self._readonly
    nonewkey,       \* self._nonewkey
    wstack,         \* local variables of the running _writeenabled generators
    lastop,         \* the last call made, on self or of the codec: [op, key, arg]
    out,            \* its outcome: [err, val]
    tdict,          \* type(self).__dict__ of a File subclass, in order
    loadpos,        \* File.load: index in tdict of the running loop, 0 outside
    loadcalls,      \* File.load: names of the drivers called, in order
    clsdict,        \* __new__: cls.__dict__ of the class constructed, in order
    newpos,         \* __new__: index in clsdict of the running loop, 0 outside
    instance,       \* __new__: the local variable instance
    nested,         \* __new__: the nested instances registered, in order
    threads,        \* local variables and position of each thread's _writeenabled
    events,         \* the threads in the order of the statements they ran
    g2,             \* the Group that self.copy() returned
    iterdefault     \* self._iterdefault

\* the variables of skio.file
filevars == <<tdict, loadpos, loadcalls>>

\* the variables of the steps of __new__
newvars == <<clsdict, newpos, instance, nested>>

\* the variables of the threads that run _writeenabled
threadvars == <<threads, events>>

\* the variables that __new__ leaves alone
ext1 == <<filevars, newvars, threadvars, g2>>

\* the variables that the methods of Example and the codec leave alone
ext == <<ext1, iterdefault>>

vars == <<cls_dtype, cls_attrs, inst, values,
          readonly, nonewkey, wstack, lastop, out, ext>>

(***************************************************************************)
(* Pure parts of Group's methods.                                          *)
(***************************************************************************)
\* __iter__: the registered keys, with the keys of _default when
\* _iterdefault is set
Iter(vals, withdefault) ==
    IF withdefault THEN (DOMAIN vals) \cup (DOMAIN cls_default)
    ELSE DOMAIN vals

\* keys(): list(self) within _iterall(False)
keys(vals) == Iter(vals, FALSE)

\* keys_all that also yields the keys of _dtype
keys_all_withtypes(vals) == Iter(vals, TRUE) \cup (DOMAIN cls_dtype)

\* keys_all(): list(self) within _iterall(True)
keys_all(vals) == Iter(vals, TRUE)

\* __len__
len(vals) == Cardinality(DOMAIN vals)

\* __contains__
contains(vals, key) == key \in DOMAIN vals

\* value * 10, as _set_f02 and _get_f02 compute it
Mul10(value) ==
    IF value.t \in {"int", "float", "str", "bytes"}
    THEN Ok([t |-> value.t, v |-> value.v * 10])
    ELSE Raise("TypeError")

\* _get_raw that looks in _default before self._values
get_raw_defaultfirst(vals, key) ==
    IF key \in DOMAIN cls_default THEN Ok(cls_default[key])
    ELSE IF key \in DOMAIN vals THEN Ok(vals[key])
    ELSE Raise("KeyError")

\* _get_raw: the registered value, else the default value, else __missing__
get_raw(vals, key) ==
    IF key \in DOMAIN vals THEN Ok(vals[key])
    ELSE IF key \in DOMAIN cls_default THEN Ok(cls_default[key])
    ELSE Raise("KeyError")

\* The methods _set_f02, _get_f02, _set_f12, _get_f12 of Example01, called
\* with one argument (set) or none (get).
CallFunc(vals, name, action, arg) ==
    CASE name = "f02" /\ action = "set" -> Mul10(arg)
      [] name = "f02" /\ action = "get" ->
            IF get_raw(vals, "02").err = "ok"
            THEN Mul10(get_raw(vals, "02").val)
            ELSE get_raw(vals, "02")
      [] name = "f12" /\ action = "set" -> Ok(arg)
      [] name = "f12" /\ action = "get" -> Ok(PyInt(10))

\* _customfunc: the function is looked up by the alias of the key in
\* _funcbase, or by the key itself
customfunc(vals, key, action, arg) ==
    LET name == IF key \in DOMAIN cls_funcbase THEN cls_funcbase[key] ELSE key
    IN  IF name \notin cls_funcs
        THEN Raise("_NoFunctionFoundError")
        ELSE CallFunc(vals, name, action, arg)

\* get: the custom getter, else _get_raw
get(vals, key) ==
    IF customfunc(vals, key, "get", None).err = "_NoFunctionFoundError"
    THEN get_raw(vals, key)
    ELSE customfunc(vals, key, "get", None)

\* isinstance(value, dtype)
IsInstance(value, base) == value.t = base

\* numpy.array(value): an array is taken as it is, any other value makes an
\* array of no dimension whose element type is the type of the value
AsArray(value) ==
    IF value.t \in ArrayTypes THEN value
    ELSE PyArray("ndarray", 0,
                 CASE value.t = "int" -> "int64"
                   [] value.t = "float" -> "float64"
                   [] value.t \in {"str", "bytes"} -> value.t
                   [] OTHER -> "object")

\* numpy.array(value, **kwargs) and numpy.ma.MaskedArray(value, **kwargs):
\* an array of class cls with the dimensions of value; with dtype=..., the
\* elements are converted, which fails with ValueError for a string that
\* holds no number and with TypeError for an object
MakeArray(cls, kwargs, value) ==
    LET a == AsArray(value)
    IN  IF "dtype" \notin DOMAIN kwargs THEN Ok(PyArray(cls, a.v, a.dtype))
        ELSE IF a.dtype \in {"str", "bytes"} THEN Raise("ValueError")
        ELSE IF a.dtype = "object" THEN Raise("TypeError")
        ELSE Ok(PyArray(cls, a.v, kwargs.dtype))

\* dtype(value, **kwargs) for the declared types of the model.
\*   int(x): a float is truncated; a str or bytes that holds no number is
\*     refused with ValueError, any other object with TypeError
\*   str(x, encoding='utf-16'): decodes bytes, refuses everything else
\*   Group(x): __init__ runs self._values.update(x) unless x is falsy
CallType(base, kwargs, value) ==
    CASE base = "int" ->
            IF value.t = "int" THEN Ok(value)
            ELSE IF value.t = "float" THEN Ok(PyInt(value.v \div 10))
            ELSE IF value.t \in {"str", "bytes"} THEN Raise("ValueError")
            ELSE Raise("TypeError")
      [] base = "str" ->
            IF value.t = "bytes" THEN Ok(PyStr(value.v))
            ELSE Raise("TypeError")
      [] base = "Group" ->
            IF value.t \in {"int", "float"} /\ value.v # 0 THEN Raise("TypeError")
            ELSE IF value.t \in {"str", "bytes"} /\ value.v # 0
                 THEN Raise("ValueError")
            ELSE Ok(GroupVal(0))
      [] base \in ArrayTypes -> MakeArray(base, kwargs, value)

\* set, lines 301-348: the value to store for a new value and the declared
\* type of its key (object when none is declared)
Coerce(dtypes, key, newvalue) ==
    IF key \notin DOMAIN dtypes THEN Ok(newvalue)
    ELSE LET base == dtypes[key].base
             kwargs == dtypes[key].kwargs
         IN  IF newvalue = None THEN Ok(newvalue)
             ELSE IF base \in ArrayTypes
                  THEN LET npkwargs ==
                               [o \in ((DOMAIN kwargs) \cup {"copy"}) \ {"ndim"} |->
                                   IF o \in DOMAIN kwargs THEN kwargs[o]
                                   ELSE FALSE]
                           ndim == IF "ndim" \in DOMAIN kwargs THEN kwargs.ndim
                                   ELSE 0
                           r == CallType(base, npkwargs, newvalue)
                       IN  IF r.err # "ok" THEN r
                           ELSE IF ndim > r.val.v THEN Raise("ValueError")
                           ELSE r
             ELSE IF DOMAIN kwargs # {} THEN CallType(base, kwargs, newvalue)
             ELSE IF ~IsInstance(newvalue, base)
                  THEN CallType(base, kwargs, newvalue)
             ELSE Ok(newvalue)

\* the test for a Group left out
HoldsGroup_never(vals, key) == FALSE

\* isinstance(self._values.get(key), Group): set line 287, __delitem__ line 423
HoldsGroup(vals, key) == key \in DOMAIN vals /\ IsGroup(vals[key])

\* the test for a new key made on the registered keys alone
NewKeyForbidden_registered(vals, nnk, key) == nnk /\ key \notin DOMAIN vals

\* self._nonewkey and key not in self.keys_all(): set line 291
NewKeyForbidden(vals, nnk, key) == nnk /\ key \notin keys_all(vals)

\* The outcome of a mutating method: the exception raised and self._values
\* when the method ends.
Done(vals) == [err |-> "ok", values |-> vals]
Fail(exc, vals) == [err |-> exc, values |-> vals]

\* set that stores the new value before its type cast
set_storefirst(vals, ro, nnk, dtypes, key, arg) ==
    IF HoldsGroup(vals, key) THEN Fail("PermissionError", vals)
    ELSE IF ro THEN Fail("PermissionError", vals)
    ELSE IF NewKeyForbidden(vals, nnk, key) THEN Fail("PermissionError", vals)
    ELSE LET func == customfunc(vals, key, "set", arg)
             newvalue == IF func.err = "_NoFunctionFoundError" THEN Ok(arg)
                         ELSE func
         IN  IF newvalue.err # "ok" THEN Fail(newvalue.err, vals)
             ELSE LET cast == Coerce(dtypes, key, newvalue.val)
                  IN  IF cast.err # "ok"
                      THEN Fail(cast.err, Put(vals, key, newvalue.val))
                      ELSE Done(Put(vals, key, cast.val))

\* set(key, arg)
set(vals, ro, nnk, dtypes, key, arg) ==
    IF HoldsGroup(vals, key) THEN Fail("PermissionError", vals)
    ELSE IF ro THEN Fail("PermissionError", vals)
    ELSE IF NewKeyForbidden(vals, nnk, key) THEN Fail("PermissionError", vals)
    ELSE LET func == customfunc(vals, key, "set", arg)
             newvalue == IF func.err = "_NoFunctionFoundError" THEN Ok(arg)
                         ELSE func
         IN  IF newvalue.err # "ok" THEN Fail(newvalue.err, vals)
             ELSE LET cast == Coerce(dtypes, key, newvalue.val)
                  IN  IF cast.err # "ok" THEN Fail(cast.err, vals)
                      ELSE Done(Put(vals, key, cast.val))

\* __delitem__ without its del statement
delitem_keeps(vals, ro, key) ==
    IF HoldsGroup(vals, key) THEN Fail("PermissionError", vals)
    ELSE IF ro THEN Fail("PermissionError", vals)
    ELSE IF key \notin DOMAIN vals THEN Fail("KeyError", vals)
    ELSE Done(vals)

\* __delitem__(key)
delitem(vals, ro, key) ==
    IF HoldsGroup(vals, key) THEN Fail("PermissionError", vals)
    ELSE IF ro THEN Fail("PermissionError", vals)
    ELSE IF key \notin DOMAIN vals THEN Fail("KeyError", vals)
    ELSE Done(Del(vals, key))

\* clear without its test of _readonly
clear_unchecked(vals, ro) == Done(EmptyMap)

\* clear()
clear(vals, ro) ==
    IF ro THEN Fail("PermissionError", vals)
    ELSE Done(EmptyMap)

\* the loop of update without its except clause: a PermissionError of set
\* ends the loop like any other exception
RECURSIVE UpdateLoop_noexcept(_, _, _, _, _, _)
UpdateLoop_noexcept(vals, ro, nnk, dtypes, source, i) ==
    IF i > Len(source) THEN Done(vals)
    ELSE LET r == set(vals, ro, nnk, dtypes, source[i][1], source[i][2])
         IN  IF r.err = "ok"
             THEN UpdateLoop_noexcept(r.values, ro, nnk, dtypes, source, i + 1)
             ELSE r

\* update, lines 471-475: the loop over the pairs of source from pair i on;
\* a PermissionError of set is skipped, any other exception ends the loop
RECURSIVE UpdateLoop(_, _, _, _, _, _)
UpdateLoop(vals, ro, nnk, dtypes, source, i) ==
    IF i > Len(source) THEN Done(vals)
    ELSE LET r == set(vals, ro, nnk, dtypes, source[i][1], source[i][2])
         IN  IF r.err \in {"ok", "PermissionError"}
             THEN UpdateLoop(r.values, ro, nnk, dtypes, source, i + 1)
             ELSE r

\* update(source): source is the sequence of the (key, value) pairs of
\* source.items()
update(vals, ro, nnk, dtypes, source) ==
    IF ro THEN Fail("PermissionError", vals)
    ELSE UpdateLoop(vals, ro, nnk, dtypes, source, 1)

(***************************************************************************)
(* Construction: __new__ and __init__.                                     *)
(***************************************************************************)
\* __new__, lines 204-212: the classes of cls.__dict__ whose __name__ starts
\* with '_Key'
KeyClasses(attrs) == {a \in DOMAIN attrs : attrs[a].haskey}

\* __new__, lines 215-216: attr.__name__ = name[len('_Key'):]
new_attrs(attrs) ==
    [a \in DOMAIN attrs |->
        IF a \in KeyClasses(attrs) THEN ClassName(FALSE, attrs[a].rest)
        ELSE attrs[a]]

\* __new__, lines 223-226: clsdtype[name] = Group for every instantiated
\* class that is a Group, unless a type is declared for name
new_dtype(dtypes, attrs) ==
    LET names == {attrs[a].rest : a \in KeyClasses(attrs)}
    IN  [k \in (DOMAIN dtypes) \cup names |->
            IF k \in DOMAIN dtypes THEN dtypes[k]
            ELSE DType("Group", NoKwargs)]

\* __new__, lines 192, 220, 233: self._values = {} and then
\* values[name] = instance; id is the identity of the instance under
\* construction, which its nested Groups share in the model
new_values(attrs, id) ==
    [k \in {attrs[a].rest : a \in KeyClasses(attrs)} |-> GroupVal(id)]

\* __init__(mapping)
init(vals, mapping) ==
    IF DOMAIN mapping # {} THEN DictUpdate(vals, mapping) ELSE vals

\* _writeenabled, lines 758-764: the local variables readonly and nonewkey
\* of the generator (the parameter nonewkey is assigned over), and the flags
\* of self at the yield
writeenabled_enter(ro, nnk, param) ==
    LET local_readonly == ro
        local_nonewkey == nnk
    IN  [backup |-> [readonly |-> local_readonly, nonewkey |-> local_nonewkey],
         readonly |-> FALSE,
         nonewkey |-> local_nonewkey]

\* _writeenabled, lines 768-770: the flags of self after the yield returned
writeenabled_exit(backup) ==
    [readonly |-> backup.readonly, nonewkey |-> backup.nonewkey]

\* _writeenabled when the with block raises: contextmanager throws the
\* exception into the generator at the yield, which has no try/finally, so
\* lines 768-770 do not run and the flags stay as they are
writeenabled_throw(ro, nnk, backup) ==
    [readonly |-> ro, nonewkey |-> nnk]

(***************************************************************************)
(* The calls the model makes.                                              *)
(***************************************************************************)
\* values given to set for each key
Inputs(k) ==
    CASE k = "01" -> {PyInt(2), PyFloat(25)}
      [] k = "02" -> {PyInt(2), None}
      [] k = "35" -> {PyBytes(4), PyStr(4)}
      [] k = "10" -> {PyInt(4)}
      [] k = "f12" -> {PyInt(1)}
      [] k = "group" -> {PyInt(1)}

\* (key, value) pairs of the mappings given to the constructor
InitPairs ==
    {<<"01", PyFloat(25)>>, <<"02", PyInt(2)>>, <<"10", PyInt(4)>>,
     <<"group", PyInt(1)>>}

\* (key, value) pairs of the sources given to update
UpdatePairs ==
    {<<"02", PyInt(2)>>, <<"02", None>>, <<"10", PyInt(4)>>,
     <<"group", PyInt(1)>>}

\* the sequences of at most MaxPairs pairs of P with distinct keys: the
\* items of a dict, in the order of the dict
Items(P) ==
    {s \in UNION {[1..n -> P] : n \in 0..MaxPairs} :
        \A i, j \in DOMAIN s : i # j => s[i][1] # s[j][1]}

\* dict(items)
AsDict(items) ==
    [k \in {items[i][1] : i \in DOMAIN items} |->
        LET i == CHOOSE i \in DOMAIN items : items[i][1] = k
        IN  items[i][2]]

\* mappings given to the constructor
InitMappings == {AsDict(s) : s \in Items(InitPairs)}

\* sources given to update
Sources == Items(UpdatePairs) \ {<<>>}

Call(op, key, arg) == [op |-> op, key |-> key, arg |-> arg]

\* no File subclass is defined and no load is running
InitFile ==
    /\ tdict = <<>>
    /\ loadpos = 0
    /\ loadcalls = <<>>

\* no __new__ is running
NoInstance == [base |-> "", parent |-> "", seen |-> ""]
InitNew ==
    /\ clsdict = <<>>
    /\ newpos = 0
    /\ instance = NoInstance
    /\ nested = <<>>

\* the threads of the program, none of which has entered _writeenabled
Threads == {"A", "B"}
InitThreads ==
    /\ threads = [t \in Threads |->
                    [pc |-> 0, readonly |-> FALSE, nonewkey |-> FALSE]]
    /\ events = <<>>

\* no copy was made
NoCopy ==
    [made |-> FALSE, shared |-> FALSE, values |-> EmptyMap,
     readonly |-> FALSE, nonewkey |-> FALSE]

InitExt ==
    /\ InitFile
    /\ InitNew
    /\ InitThreads
    /\ g2 = NoCopy
    /\ iterdefault = FALSE

Init ==
    /\ InitExt
    /\ cls_dtype = cls_dtype0
    /\ cls_attrs = cls_attrs0
    /\ inst = 0
    /\ values = EmptyMap
    /\ readonly = cls_readonly
    /\ nonewkey = cls_nonewkey
    /\ wstack = <<>>
    /\ lastop = Call("import", "", None)
    /\ out = Ok(None)

\* self = Example(mapping)
New(mapping) ==
    /\ inst < MaxInstances
    /\ inst' = inst + 1
    /\ cls_attrs' = new_attrs(cls_attrs)
    /\ cls_dtype' = new_dtype(cls_dtype, cls_attrs)
    /\ values' = init(new_values(cls_attrs, inst + 1), mapping)
    /\ readonly' = cls_readonly
    /\ nonewkey' = cls_nonewkey
    /\ wstack' = <<>>
    /\ lastop' = Call("new", "", None)
    /\ out' = Ok(None)
    /\ iterdefault' = FALSE
    /\ UNCHANGED ext1

\* self._readonly = ro; self._nonewkey = nnk, as the tests do outside of any
\* _writeenabled block
AssignFlags(ro, nnk) ==
    /\ inst > 0
    /\ wstack = <<>>
    /\ <<ro, nnk>> # <<readonly, nonewkey>>
    /\ readonly' = ro
    /\ nonewkey' = nnk
    /\ lastop' = Call("assign", "", None)
    /\ out' = Ok(None)
    /\ UNCHANGED <<cls_dtype, cls_attrs, inst, values, wstack>>
    /\ UNCHANGED ext

\* self.set(key, arg), self[key] = arg
Set(key, arg) ==
    /\ inst > 0
    /\ LET r == set(values, readonly, nonewkey, cls_dtype, key, arg)
       IN  /\ values' = r.values
           /\ out' = [err |-> r.err, val |-> None]
    /\ lastop' = Call("set", key, arg)
    /\ UNCHANGED <<cls_dtype, cls_attrs, inst, readonly, nonewkey, wstack>>
    /\ UNCHANGED ext

\* del self[key]
Delitem(key) ==
    /\ inst > 0
    /\ LET r == delitem(values, readonly, key)
       IN  /\ values' = r.values
           /\ out' = [err |-> r.err, val |-> None]
    /\ lastop' = Call("del", key, None)
    /\ UNCHANGED <<cls_dtype, cls_attrs, inst, readonly, nonewkey, wstack>>
    /\ UNCHANGED ext

\* self.clear()
Clear ==
    /\ inst > 0
    /\ LET r == clear(values, readonly)
       IN  /\ values' = r.values
           /\ out' = [err |-> r.err, val |-> None]
    /\ lastop' = Call("clear", "", None)
    /\ UNCHANGED <<cls_dtype, cls_attrs, inst, readonly, nonewkey, wstack>>
    /\ UNCHANGED ext

\* self.update(source)
Update(source) ==
    /\ inst > 0
    /\ LET r == update(values, readonly, nonewkey, cls_dtype, source)
       IN  /\ values' = r.values
           /\ out' = [err |-> r.err, val |-> None]
    /\ lastop' = Call("update", "", None)
    /\ UNCHANGED <<cls_dtype, cls_attrs, inst, readonly, nonewkey, wstack>>
    /\ UNCHANGED ext

\* self.get(key), self[key]
Get(key) ==
    /\ inst > 0
    /\ out' = get(values, key)
    /\ lastop' = Call("get", key, None)
    /\ UNCHANGED <<cls_dtype, cls_attrs, inst, values, readonly, nonewkey,
                   wstack>>
    /\ UNCHANGED ext

\* with self._writeenabled(param): the generator runs up to its yield
EnterWriteEnabled(param) ==
    /\ inst > 0
    /\ Len(wstack) < MaxDepth
    /\ LET e == writeenabled_enter(readonly, nonewkey, param)
       IN  /\ wstack' = <<e.backup>> \o wstack
           /\ readonly' = e.readonly
           /\ nonewkey' = e.nonewkey
    /\ lastop' = Call("enter", "", None)
    /\ out' = Ok(None)
    /\ UNCHANGED <<cls_dtype, cls_attrs, inst, values>>
    /\ UNCHANGED ext

\* the innermost with block ends normally: its generator runs to its end
ExitWriteEnabled ==
    /\ wstack # <<>>
    /\ LET x == writeenabled_exit(Head(wstack))
       IN  /\ readonly' = x.readonly
           /\ nonewkey' = x.nonewkey
    /\ wstack' = Tail(wstack)
    /\ lastop' = Call("exit", "", None)
    /\ out' = Ok(None)
    /\ UNCHANGED <<cls_dtype, cls_attrs, inst, values>>
    /\ UNCHANGED ext

\* the exception of the last call, not caught in the innermost with block,
\* leaves the block: it is thrown into the generator and goes on to the
\* caller
RaiseWriteEnabled ==
    /\ wstack # <<>>
    /\ out.err # "ok"
    /\ LET x == writeenabled_throw(readonly, nonewkey, Head(wstack))
       IN  /\ readonly' = x.readonly
           /\ nonewkey' = x.nonewkey
    /\ wstack' = Tail(wstack)
    /\ lastop' = Call("exit_raise", "", None)
    /\ UNCHANGED <<cls_dtype, cls_attrs, inst, values, out>>
    /\ UNCHANGED ext

Next ==
    \/ \E mapping \in InitMappings : New(mapping)
    \/ \E ro, nnk \in BOOLEAN : AssignFlags(ro, nnk)
    \/ \E key \in KEYS : \E arg \in Inputs(key) : Set(key, arg)
    \/ \E key \in KEYS : Delitem(key)
    \/ Clear
    \/ \E source \in Sources : Update(source)
    \/ \E key \in KEYS : Get(key)
    \/ \E param \in BOOLEAN : EnterWriteEnabled(param)
    \/ ExitWriteEnabled
    \/ RaiseWriteEnabled

Spec == Init /\ [][Next]_vars

(***************************************************************************)
(* The typed keys of Example01: set with values of the declared type and   *)
(* of other types.                                                         *)
(***************************************************************************)
\* the keys of _dtype, and the key "02" for its custom setter
TypedKeys == {"01", "02", "03", "04", "35"}

\* values given to set for each typed key: for the arrays, np.ones(5),
\* np.ones((2, 2), dtype=np.int16) and the masked array of the tests, and
\* arrays of every number of dimensions up to MaxRank
TypedInputs(k) ==
    CASE k = "01" -> {None, PyInt(2), PyFloat(25), PyStr(4)}
      [] k = "02" -> {None, PyInt(2)}
      [] k = "03" -> {None, PyInt(2), PyArray("ndarray", 2, "int16"),
                      PyArray("MaskedArray", 2, "int64")}
                     \cup {PyArray("ndarray", n, "float64") : n \in 1..MaxRank}
      [] k = "04" -> {None, PyArray("MaskedArray", 2, "int64"),
                      PyArray("ndarray", 1, "float64")}
      [] k = "35" -> {None, PyBytes(4), PyStr(4)}

NextTyped ==
    \/ New(EmptyMap)
    \/ \E ro, nnk \in BOOLEAN : AssignFlags(ro, nnk)
    \/ \E key \in TypedKeys : \E arg \in TypedInputs(key) : Set(key, arg)
    \/ \E key \in TypedKeys : Delitem(key)

SpecTyped == Init /\ [][NextTyped]_vars

(***************************************************************************)
(* update and the operations that prepare its cases: the instances, the    *)
(* flags and the keys that are missing when update runs.                   *)
(***************************************************************************)
NextUpdate ==
    \/ \E mapping \in InitMappings : New(mapping)
    \/ \E ro, nnk \in BOOLEAN : AssignFlags(ro, nnk)
    \/ \E key \in KEYS : Delitem(key)
    \/ \E source \in Sources : Update(source)

SpecUpdate == Init /\ [][NextUpdate]_vars

(***************************************************************************)
(* skio.codec (src/skio/codec.py): intencode and intdecode.                *)
(*                                                                         *)
(* A float64 is a fraction <<n, d>> in lowest terms with d > 0, and NaN is *)
(* <<0, 0>>; the arithmetic is exact.  An array is a sequence; a masked     *)
(* array comes with the sequence of its mask.                              *)
(***************************************************************************)
NaN == <<0, 0>>
IsNaN(x) == x[2] = 0

Abs(n) == IF n < 0 THEN -n ELSE n

RECURSIVE Gcd(_, _)
Gcd(a, b) == IF b = 0 THEN a ELSE Gcd(b, a % b)

\* the float n / d, for d # 0
Frac(n, d) ==
    LET g == Gcd(Abs(n), Abs(d))
        s == IF d < 0 THEN -1 ELSE 1
    IN  <<(s * n) \div g, (s * d) \div g>>

\* float(n)
Float(n) == <<n, 1>>

FAdd(x, y) == Frac(x[1] * y[2] + y[1] * x[2], x[2] * y[2])
FSub(x, y) == Frac(x[1] * y[2] - y[1] * x[2], x[2] * y[2])
FMul(x, y) == Frac(x[1] * y[1], x[2] * y[2])
\* x / y, for y # 0
FDiv(x, y) == Frac(x[1] * y[2], x[2] * y[1])
FLess(x, y) == x[1] * y[2] < y[1] * x[2]
FAbs(x) == <<Abs(x[1]), x[2]>>

\* int(x) and ndarray.astype(inttype): the fraction is cut off
Trunc(x) == IF x[1] >= 0 THEN x[1] \div x[2] ELSE -((-x[1]) \div x[2])

\* numpy.around(x): the nearest integer, the even one of two nearest
Around(x) ==
    LET floor == x[1] \div x[2]
        rest == x[1] - floor * x[2]
    IN  IF 2 * rest < x[2] THEN floor
        ELSE IF 2 * rest > x[2] THEN floor + 1
        ELSE IF floor % 2 = 0 THEN floor
        ELSE floor + 1

\* numpy.iinfo(inttype): min and max of the integer types of the model
iinfo(inttype) ==
    CASE inttype = "int8" -> [min |-> -128, max |-> 127]
      [] inttype = "uint8" -> [min |-> 0, max |-> 255]
      [] inttype = "int16" -> [min |-> -32768, max |-> 32767]
      [] inttype = "uint16" -> [min |-> 0, max |-> 65535]

\* an optional argument: absent (Python None) or an integer
Absent == [some |-> FALSE, v |-> 0]
Some(n) == [some |-> TRUE, v |-> n]

\* the argument invalidvalue of intencode: False, None or an integer
InvFalse == [kind |-> "False", v |-> 0]
InvNone == [kind |-> "None", v |-> 0]
InvInt(n) == [kind |-> "int", v |-> n]

\* the valid (not masked) elements of a float array, as a set
ValidSet(data) == {data[i] : i \in {j \in DOMAIN data : ~IsNaN(data[j])}}

\* MaskedArray.min() and MaskedArray.max(), for an array with a valid element
FMin(data) == CHOOSE x \in ValidSet(data) : \A y \in ValidSet(data) : ~FLess(y, x)
FMax(data) == CHOOSE x \in ValidSet(data) : \A y \in ValidSet(data) : ~FLess(x, y)

\* the outcome of a codec call: the exception raised ("ok" when none) and the
\* value returned
Return(value) == [err |-> "ok", val |-> value]

\* a division by zero: numpy goes on with inf or nan, which the model has
\* not; the call is given this outcome
DivideByZero == [err |-> "divide by zero", val |-> None]

\* an element that inttype cannot hold is cast: what astype gives then is
\* not defined; the call is given this outcome
CastOverflow == [err |-> "cast overflow", val |-> None]

\* intencode, lines 117-128: the invalid value, None replaced
EncodeInvalid(inttype, invalidvalue) ==
    IF invalidvalue.kind # "None" THEN invalidvalue
    ELSE IF iinfo(inttype).min = 0 THEN InvInt(iinfo(inttype).max)
    ELSE InvInt(iinfo(inttype).min)

\* intencode, lines 130-154: the scaling range and the keepsign flag
EncodeRange(data, inttype, invalidvalue, rangemin, rangemax, keepsign) ==
    LET intmin == iinfo(inttype).min
        intmax == iinfo(inttype).max
        inv == EncodeInvalid(inttype, invalidvalue)
        keepsign1 == IF intmin = 0 /\ FLess(FMin(data), Float(0)) THEN FALSE
                     ELSE keepsign
        rangemin1 == IF ~rangemin.some
                     THEN IF inv.v # intmin \/ inv.kind = "False" THEN intmin
                          ELSE intmin + 1
                     ELSE IF rangemin.v < intmin THEN intmin
                     ELSE rangemin.v
        rangemax1 == IF ~rangemax.some
                     THEN IF inv.v # intmax THEN intmax ELSE intmax - 1
                     ELSE IF rangemax.v > intmax THEN intmax
                     ELSE rangemax.v
    IN  IF ~keepsign1 /\ rangemin1 < 0
        THEN [rangemin |-> 0, rangemax |-> rangemax1, keepsign |-> keepsign1]
        ELSE IF rangemin1 >= 0 \/ rangemax1 <= 0
        THEN [rangemin |-> rangemin1, rangemax |-> rangemax1, keepsign |-> FALSE]
        ELSE [rangemin |-> rangemin1, rangemax |-> rangemax1,
              keepsign |-> keepsign1]

\* intencode, lines 161-177: the best scale factor
BestFactor(data, rangemin, rangemax, keepsign) ==
    IF keepsign
    THEN LET minval == FAbs(FMin(data))
             maxval == FAbs(FMax(data))
             minrng == Float(Abs(rangemin))
             maxrng == Float(Abs(rangemax))
         IN  IF FLess(FDiv(maxval, maxrng), FDiv(minval, minrng))
             THEN Return(FDiv(minval, minrng))
             ELSE Return(FDiv(maxval, maxrng))
    ELSE LET maxdata == FSub(FMax(data), FMin(data))
             maxrange == Float(rangemax - rangemin)
         IN  IF maxrange = Float(0) THEN DivideByZero
             ELSE Return(FDiv(maxdata, maxrange))

\* intencode, lines 179-203: the factor reversed, made an integer, limited
\* and made positive
AdjustFactor(factor, inttype, intfactor, invfactor, maxfactor) ==
    LET reversed == IF invfactor THEN FDiv(Float(1), factor) ELSE factor
        intrev == IF invfactor THEN -1 ELSE 1
        ifactor == Trunc(reversed)
        whole == IF ~intfactor THEN reversed
                 ELSE IF reversed # Float(ifactor) THEN Float(ifactor + intrev)
                 ELSE Float(ifactor)
        limit == IF maxfactor = Float(-1) THEN Float(iinfo(inttype).max)
                 ELSE maxfactor
        limited == IF maxfactor # Float(0) /\ FLess(limit, whole) THEN limit
                   ELSE whole
    IN  FAbs(limited)

\* intencode, lines 205-220: the data scaled, moved, rounded and cast to
\* integers; a masked element is left as NaN
ScaleData(data, factor, invfactor, rangemin, keepsign, intround) ==
    LET scaled == [i \in DOMAIN data |->
                      IF IsNaN(data[i]) THEN NaN
                      ELSE IF invfactor THEN FMul(data[i], factor)
                      ELSE FDiv(data[i], factor)]
        moved == [i \in DOMAIN data |->
                     IF IsNaN(scaled[i]) THEN NaN
                     ELSE IF rangemin >= 0 \/ ~keepsign
                     THEN FAdd(scaled[i], FSub(Float(rangemin), FMin(scaled)))
                     ELSE scaled[i]]
    IN  [i \in DOMAIN data |->
            IF IsNaN(moved[i]) THEN NaN
            ELSE IF intround THEN Float(Around(moved[i]))
            ELSE Float(Trunc(moved[i]))]

\* intencode, lines 222-229: the array returned for the integers ints (NaN
\* where masked) and the invalid value; an element left masked holds 0, as
\* the tests read it
EncodeResult(ints, inv, factor) ==
    LET masked == {i \in DOMAIN ints : IsNaN(ints[i])}
    IN  IF inv.v # 0
        THEN [cls |-> "ndarray",
              data |-> [i \in DOMAIN ints |->
                            IF i \in masked THEN inv.v ELSE ints[i][1]],
              mask |-> [i \in DOMAIN ints |-> FALSE],
              factor |-> factor]
        ELSE [cls |-> IF masked = {} THEN "ndarray" ELSE "MaskedArray",
              data |-> [i \in DOMAIN ints |->
                            IF i \in masked THEN 0 ELSE ints[i][1]],
              mask |-> [i \in DOMAIN ints |-> i \in masked],
              factor |-> factor]

\* intencode(data, inttype, invalidvalue, rangemin, rangemax, keepsign,
\*           intfactor, invfactor, maxfactor, forcefactor, intround)
intencode(data, inttype, invalidvalue, rangemin, rangemax, keepsign, intfactor, invfactor, maxfactor, forcefactor, intround) ==
    LET inv == EncodeInvalid(inttype, invalidvalue)
        rng == EncodeRange(data, inttype, invalidvalue, rangemin, rangemax,
                           keepsign)
        best == IF forcefactor # Float(0) THEN Return(forcefactor)
                ELSE BestFactor(data, rng.rangemin, rng.rangemax, rng.keepsign)
    IN  IF best.err # "ok" THEN best
        ELSE IF invfactor /\ best.val = Float(0) THEN DivideByZero
        ELSE LET factor == AdjustFactor(best.val, inttype, intfactor, invfactor,
                                        maxfactor)
             IN  IF ~invfactor /\ factor = Float(0) THEN DivideByZero
                 ELSE LET ints == ScaleData(data, factor, invfactor,
                                            rng.rangemin, rng.keepsign, intround)
                      IN  IF \E x \in ValidSet(ints) :
                                 \/ x[1] < iinfo(inttype).min
                                 \/ x[1] > iinfo(inttype).max
                          THEN CastOverflow
                          ELSE Return(EncodeResult(ints, inv, factor))

\* the argument invalid of intdecode: None, an integer or a tuple (low, high)
NoInvalid == [kind |-> "None", lo |-> 0, hi |-> 0]
OneInvalid(n) == [kind |-> "int", lo |-> n, hi |-> n]
OutsideInvalid(lo, hi) == [kind |-> "tuple", lo |-> lo, hi |-> hi]

\* the element types given as dtype to intdecode, and the floating ones
DTypes == {"float32", "float64", "int32"}
FloatTypes == {"float32", "float64"}

\* intdecode(data, scalefactor, dtype, invalid, masked): data is an array of
\* small integers and scalefactor a Python float, so that the elements of
\* the result are exact in float32 as in float64; np.array(data, dtype=dtype)
\* has the element type dtype, np.where(..., data, np.nan) has float64
intdecode(data, scalefactor, dtype, invalid, masked) ==
    IF dtype \notin FloatTypes THEN [err |-> "ValueError", val |-> None]
    ELSE LET filtered ==
                 [i \in DOMAIN data |->
                     CASE invalid.kind = "None" -> Float(data[i])
                       [] invalid.kind = "tuple" ->
                            IF data[i] > invalid.lo /\ data[i] < invalid.hi
                            THEN Float(data[i]) ELSE NaN
                       [] invalid.kind = "int" ->
                            IF data[i] # invalid.lo THEN Float(data[i])
                            ELSE NaN]
             truthy == \/ invalid.kind = "tuple"
                       \/ invalid.kind = "int" /\ invalid.lo # 0
         IN  Return([cls |-> IF masked /\ (invalid.kind = "None" \/ truthy)
                             THEN "MaskedArray" ELSE "ndarray",
                     dtype |-> IF invalid.kind = "None" THEN dtype
                               ELSE "float64",
                     data |-> [i \in DOMAIN data |->
                                  IF IsNaN(filtered[i]) THEN NaN
                                  ELSE FMul(filtered[i], scalefactor)],
                     mask |-> [i \in DOMAIN data |->
                                  masked /\ truthy /\ IsNaN(filtered[i])]])

(***************************************************************************)
(* The codec calls the model makes.                                        *)
(***************************************************************************)
\* the elements of the float arrays given to intencode
DataValues == {NaN, Float(-2), Float(0), Float(1), Float(3)}

\* the arrays of 1 to MaxLen elements of S
Arrays(S) == UNION {[1..n -> S] : n \in 1..MaxLen}

\* the float arrays given to intencode: at least one element is valid
DataArrays == {data \in Arrays(DataValues) : ValidSet(data) # {}}

\* the integer types given to intencode
IntTypes == {"int8", "uint8"}

\* the invalid values given to intencode for an integer type: False, None,
\* and integers the type can hold
InvalidValues(inttype) ==
    {InvFalse, InvNone, InvInt(0)}
        \cup (IF iinfo(inttype).min < 0 THEN {InvInt(-1)} ELSE {})

\* the pairs (rangemin, rangemax) given to intencode: none, and the ranges
\* of test_intencode_rangeminmax
Ranges ==
    {<<Absent, Absent>>, <<Some(-100), Some(100)>>, <<Some(100), Some(200)>>,
     <<Some(-200), Some(-100)>>, <<Some(-256), Some(256)>>}

\* the arguments of a call of intencode
EncodeArgs(data, inttype, invalidvalue, range, keepsign, intfactor, invfactor, maxfactor, forcefactor, intround) ==
    [data |-> data, inttype |-> inttype, invalidvalue |-> invalidvalue,
     rangemin |-> range[1], rangemax |-> range[2], keepsign |-> keepsign,
     intfactor |-> intfactor, invfactor |-> invfactor,
     maxfactor |-> maxfactor, forcefactor |-> forcefactor,
     intround |-> intround]

\* the pairs (inttype, invalidvalue) given to intencode
TypedInvalidValues ==
    UNION {{<<inttype, invalidvalue>> :
                invalidvalue \in InvalidValues(inttype)} : inttype \in IntTypes}

\* the calls of intencode with its default factor arguments
EncodeCalls ==
    {EncodeArgs(data, typed[1], typed[2], range, keepsign, FALSE, FALSE,
                Float(0), Float(0), intround) :
        data \in DataArrays, typed \in TypedInvalidValues,
        range \in Ranges, keepsign \in BOOLEAN, intround \in BOOLEAN}

\* the calls of intencode of test_intencode_int_inv_max and
\* test_intencode_forcefactor, on an array with the ends of FDAT
FactorCalls ==
    {EncodeArgs(<<Float(0), Frac(5, 2)>>, "uint8", InvFalse,
                <<Absent, rangemax>>, TRUE, intfactor, invfactor,
                maxfactor, forcefactor, TRUE) :
        rangemax \in {Absent, Some(1)}, intfactor \in BOOLEAN,
        invfactor \in BOOLEAN, maxfactor \in {Float(0), Float(-1), Float(10)},
        forcefactor \in {Float(0), Float(42)}}

\* the integer arrays given to intdecode: of the elements of IDAT
IntArrays == Arrays({0, 1, 3})

\* the calls of intdecode, as test_intdecode_invalid and
\* test_intdecode_dtype make them
DecodeCalls ==
    {[data |-> data, scalefactor |-> Frac(1, 2), dtype |-> dtype,
      invalid |-> invalid, masked |-> masked] :
        data \in IntArrays, dtype \in DTypes,
        invalid \in {NoInvalid, OneInvalid(3), OneInvalid(0),
                     OutsideInvalid(1, 4)},
        masked \in BOOLEAN}

\* a program that calls the codec once: the Group class is defined, no Group
\* is constructed, and the arguments of the call are chosen
InitCodec ==
    /\ InitExt
    /\ cls_dtype = cls_dtype0
    /\ cls_attrs = cls_attrs0
    /\ inst = 0
    /\ values = EmptyMap
    /\ readonly = cls_readonly
    /\ nonewkey = cls_nonewkey
    /\ wstack = <<>>
    /\ out = Ok(None)
    /\ \/ \E args \in EncodeCalls \cup FactorCalls :
            lastop = Call("call intencode", "", args)
       \/ \E args \in DecodeCalls :
            lastop = Call("call intdecode", "", args)

\* out = intencode(**args)
Encode ==
    /\ lastop.op = "call intencode"
    /\ lastop' = Call("intencode", "", lastop.arg)
    /\ LET args == lastop.arg
       IN  out' = intencode(args.data, args.inttype, args.invalidvalue,
                            args.rangemin, args.rangemax, args.keepsign,
                            args.intfactor, args.invfactor, args.maxfactor,
                            args.forcefactor, args.intround)
    /\ UNCHANGED <<cls_dtype, cls_attrs, inst, values, readonly, nonewkey,
                   wstack>>
    /\ UNCHANGED ext

\* the argument invalid that decodes what intencode(**args) returned: the
\* invalid value intencode used, None when it used none
DecodeInvalid(args) ==
    IF args.invalidvalue.kind = "False" THEN NoInvalid
    ELSE OneInvalid(EncodeInvalid(args.inttype, args.invalidvalue).v)

\* encoded, factor = intencode(**args) has returned;
\* out = intdecode(encoded, factor, invalid=..., masked=masked)
DecodeEncoded(masked) ==
    /\ lastop.op = "intencode"
    /\ out.err = "ok"
    /\ lastop' = Call("intdecode of intencode",
                      IF masked THEN "masked" ELSE "", lastop.arg)
    /\ out' = intdecode(out.val.data, out.val.factor, "float64",
                        DecodeInvalid(lastop.arg), masked)
    /\ UNCHANGED <<cls_dtype, cls_attrs, inst, values, readonly, nonewkey,
                   wstack>>
    /\ UNCHANGED ext

\* out = intdecode(**args)
Decode ==
    /\ lastop.op = "call intdecode"
    /\ lastop' = Call("intdecode", "", lastop.arg)
    /\ LET args == lastop.arg
       IN  out' = intdecode(args.data, args.scalefactor, args.dtype,
                            args.invalid, args.masked)
    /\ UNCHANGED <<cls_dtype, cls_attrs, inst, values, readonly, nonewkey,
                   wstack>>
    /\ UNCHANGED ext

NextCodec ==
    \/ Encode
    \/ \E masked \in BOOLEAN : DecodeEncoded(masked)
    \/ Decode

SpecCodec == InitCodec /\ [][NextCodec]_vars

(***************************************************************************)
(* skio.file (src/skio/file.py): File.load.                                *)
(*                                                                         *)
(* A File subclass is the sequence of the attributes of its class body, in *)
(* the order of type(self).__dict__.  The name of an attribute is the pair *)
(* of its first four letters and of the rest: "loada" is <<"load", "a">>.  *)
(* load is one step by attribute examined.                                 *)
(***************************************************************************)
\* an attribute of the class body: a def statement leaves a function in
\* __dict__; a bound method of another object can be assigned in the body;
\* raises is what calling it does ("ok": it returns)
Attr(name, kind, raises) == [name |-> name, kind |-> kind, raises |-> raises]

\* inspect.ismethod(attr): true for bound methods only
ismethod(attr) == attr.kind = "method"

\* name.startswith('load') and name != 'load'
IsLoadExt(name) == name[1] = "load" /\ name[2] # ""

\* the attributes a File subclass defines: load, savea, and the drivers
\* loada and loadb that return, raise FileFormatError or raise ImportError
\* (as File.loadhdf5 does)
Attrs ==
    {Attr(name, kind, "ok") :
        name \in {<<"load", "">>, <<"save", "a">>},
        kind \in {"function", "method"}}
    \cup {Attr(name, kind, raises) :
            name \in {<<"load", "a">>, <<"load", "b">>},
            kind \in {"function", "method"},
            raises \in {"ok", "FileFormatError", "ImportError"}}

\* the class bodies: up to MaxAttrs attributes of distinct names
TDicts ==
    {td \in UNION {[1..n -> Attrs] : n \in 1..MaxAttrs} :
        \A i, j \in DOMAIN td : td[i].name = td[j].name => i = j}

\* a program that defines a File subclass and has an instance of it
InitFileClass ==
    /\ cls_dtype = cls_dtype0
    /\ cls_attrs = cls_attrs0
    /\ inst = 0
    /\ values = EmptyMap
    /\ readonly = cls_readonly
    /\ nonewkey = cls_nonewkey
    /\ wstack = <<>>
    /\ lastop = Call("class", "", None)
    /\ out = Ok(None)
    /\ tdict \in TDicts
    /\ loadpos = 0
    /\ loadcalls = <<>>
    /\ InitNew
    /\ InitThreads
    /\ g2 = NoCopy
    /\ iterdefault = FALSE

\* self.load(filename) is called: the loop starts (lines 138-139)
LoadCall ==
    /\ lastop.op = "class"
    /\ loadpos = 0
    /\ loadpos' = 1
    /\ loadcalls' = <<>>
    /\ lastop' = Call("call load", "", None)
    /\ UNCHANGED <<cls_dtype, cls_attrs, inst, values, readonly, nonewkey,
                   wstack, out, tdict>>
    /\ UNCHANGED <<newvars, threadvars, g2, iterdefault>>

\* the loop passes an attribute that is not a loading method (lines 143-149)
LoadSkip ==
    /\ loadpos \in DOMAIN tdict
    /\ ~(ismethod(tdict[loadpos]) /\ IsLoadExt(tdict[loadpos].name))
    /\ loadpos' = loadpos + 1
    /\ UNCHANGED <<cls_dtype, cls_attrs, inst, values, readonly, nonewkey,
                   wstack, lastop, out, tdict, loadcalls>>
    /\ UNCHANGED <<newvars, threadvars, g2, iterdefault>>

\* the loop calls a loading method (lines 152-156): FileFormatError goes to
\* the next attribute, a return ends load, another exception leaves load
LoadTry ==
    /\ loadpos \in DOMAIN tdict
    /\ ismethod(tdict[loadpos]) /\ IsLoadExt(tdict[loadpos].name)
    /\ loadcalls' = Append(loadcalls, tdict[loadpos].name)
    /\ LET raises == tdict[loadpos].raises
       IN  IF raises = "FileFormatError"
           THEN /\ loadpos' = loadpos + 1
                /\ UNCHANGED <<lastop, out>>
           ELSE /\ loadpos' = 0
                /\ lastop' = Call("load", "", None)
                /\ out' = IF raises = "ok" THEN Ok(None) ELSE Raise(raises)
    /\ UNCHANGED <<cls_dtype, cls_attrs, inst, values, readonly, nonewkey,
                   wstack, tdict>>
    /\ UNCHANGED <<newvars, threadvars, g2, iterdefault>>

\* the loop is over: load returns None
LoadReturn ==
    /\ loadpos = Len(tdict) + 1
    /\ loadpos' = 0
    /\ lastop' = Call("load", "", None)
    /\ out' = Ok(None)
    /\ UNCHANGED <<cls_dtype, cls_attrs, inst, values, readonly, nonewkey,
                   wstack, tdict, loadcalls>>
    /\ UNCHANGED <<newvars, threadvars, g2, iterdefault>>

NextFile ==
    \/ LoadCall
    \/ LoadSkip
    \/ LoadTry
    \/ LoadReturn

SpecFile == InitFileClass /\ [][NextFile]_vars

(***************************************************************************)
(* The steps of Group.__new__ (src/skio/group.py, lines 183-236) for a     *)
(* class whose body holds nested classes, as Example02 and File.           *)
(***************************************************************************)
\* an attribute of the class body: isclass is inspect.isclass(attr), haskey
\* and rest are its __name__ as in ClassName, base is the class it derives
\* from ("Keyinfos" is a Group whose __init__ reads the attributes of
\* self.prt, as File._Keyinfos)
ClassAttr(isclass, haskey, rest, base) ==
    [isclass |-> isclass, haskey |-> haskey, rest |-> rest, base |-> base]

\* the attributes of the class bodies: _Keygroup and _Group of Example02,
\* _Keysubfiles, _Keyinfos and _nonewkey of File
ClassAttrs ==
    {ClassAttr(TRUE, TRUE, "group", "Group"),
     ClassAttr(TRUE, FALSE, "_Group", "Group"),
     ClassAttr(TRUE, TRUE, "subfiles", "list"),
     ClassAttr(TRUE, TRUE, "infos", "Keyinfos"),
     ClassAttr(FALSE, FALSE, "_nonewkey", "bool")}

\* the class bodies: up to MaxAttrs attributes of distinct names
ClsDicts ==
    {cd \in UNION {[1..n -> ClassAttrs] : n \in 1..MaxAttrs} :
        \A i, j \in DOMAIN cd : cd[i].rest = cd[j].rest => i = j}

\* isinstance(instance, Group)
IsGroupBase(base) == base \in {"Group", "Keyinfos"}

\* a program that defines a Group subclass
InitNewClass ==
    /\ cls_dtype = cls_dtype0
    /\ cls_attrs = cls_attrs0
    /\ inst = 0
    /\ values = EmptyMap
    /\ readonly = cls_readonly
    /\ nonewkey = cls_nonewkey
    /\ wstack = <<>>
    /\ lastop = Call("class", "", None)
    /\ out = Ok(None)
    /\ InitFile
    /\ clsdict \in ClsDicts
    /\ newpos = 0
    /\ instance = NoInstance
    /\ nested = <<>>
    /\ InitThreads
    /\ g2 = NoCopy
    /\ iterdefault = FALSE

\* cls(...) is called: __new__ creates self and starts its loop (lines
\* 188-204)
NewCall ==
    /\ newpos = 0
    /\ inst < MaxInstances
    /\ inst' = inst + 1
    /\ values' = EmptyMap
    /\ readonly' = cls_readonly
    /\ nonewkey' = cls_nonewkey
    /\ newpos' = 1
    /\ instance' = NoInstance
    /\ nested' = <<>>
    /\ lastop' = Call("call new", "", None)
    /\ out' = Ok(None)
    /\ UNCHANGED <<cls_dtype, cls_attrs, wstack, clsdict, filevars>>
    /\ iterdefault' = FALSE
    /\ UNCHANGED <<threadvars, g2>>

\* the loop passes an attribute that is not a class named _Key... (lines
\* 205-212)
NewSkip ==
    /\ newpos \in DOMAIN clsdict
    /\ instance = NoInstance
    /\ ~(clsdict[newpos].isclass /\ clsdict[newpos].haskey)
    /\ newpos' = newpos + 1
    /\ UNCHANGED <<cls_dtype, cls_attrs, inst, values, readonly, nonewkey,
                   wstack, lastop, out, clsdict, instance, nested, filevars>>
    /\ UNCHANGED <<threadvars, g2, iterdefault>>

\* the class is renamed and instantiated (lines 215-220): instance = attr()
\* runs the __new__ of the nested class, which sets _parent to None (line
\* 191), and then its __init__, where self.prt is therefore None; the
\* __init__ of Keyinfos reads an attribute of it, which raises
\* AttributeError out of the __new__ of the enclosing class
NewInstantiate ==
    /\ newpos \in DOMAIN clsdict
    /\ instance = NoInstance
    /\ clsdict[newpos].isclass /\ clsdict[newpos].haskey
    /\ clsdict' = [clsdict EXCEPT ![newpos].haskey = FALSE]
    /\ LET base == clsdict[newpos].base
           parent == IF IsGroupBase(base) THEN "None" ELSE ""
       IN  IF base = "Keyinfos" /\ parent = "None"
           THEN /\ newpos' = 0
                /\ instance' = NoInstance
                /\ lastop' = Call("new", "", None)
                /\ out' = Raise("AttributeError")
           ELSE /\ instance' = [base |-> base, parent |-> parent,
                                seen |-> parent]
                /\ UNCHANGED <<newpos, lastop, out>>
    /\ UNCHANGED <<cls_dtype, cls_attrs, inst, values, readonly, nonewkey,
                   wstack, nested, filevars>>
    /\ UNCHANGED <<threadvars, g2, iterdefault>>

\* the instance is linked to self when it is a Group, its type is added to
\* cls._dtype, and it is registered (lines 223-233)
NewLink ==
    /\ newpos \in DOMAIN clsdict
    /\ instance # NoInstance
    /\ LET name == clsdict[newpos].rest
           linked == IF IsGroupBase(instance.base)
                     THEN [instance EXCEPT !.parent = "self"]
                     ELSE instance
       IN  /\ cls_dtype' =
                IF IsGroupBase(instance.base) /\ name \notin DOMAIN cls_dtype
                THEN Put(cls_dtype, name, DType("Group", NoKwargs))
                ELSE cls_dtype
           /\ values' = Put(values, name,
                            IF IsGroupBase(instance.base) THEN GroupVal(inst)
                            ELSE [t |-> "list", v |-> 0])
           /\ nested' = Append(nested, [name |-> name, base |-> linked.base,
                                        parent |-> linked.parent,
                                        seen |-> linked.seen])
    /\ instance' = NoInstance
    /\ newpos' = newpos + 1
    /\ UNCHANGED <<cls_attrs, inst, readonly, nonewkey, wstack, lastop, out,
                   clsdict, filevars>>
    /\ UNCHANGED <<threadvars, g2, iterdefault>>

\* the loop is over: __new__ returns self, and __init__() does nothing
NewReturn ==
    /\ newpos = Len(clsdict) + 1
    /\ newpos' = 0
    /\ lastop' = Call("new", "", None)
    /\ out' = Ok(None)
    /\ UNCHANGED <<cls_dtype, cls_attrs, inst, values, readonly, nonewkey,
                   wstack, clsdict, instance, nested, filevars>>
    /\ UNCHANGED <<threadvars, g2, iterdefault>>

NextNew ==
    \/ NewCall
    \/ NewSkip
    \/ NewInstantiate
    \/ NewLink
    \/ NewReturn

SpecNew == InitNewClass /\ [][NextNew]_vars

(***************************************************************************)
(* Group.__sizeof__ (src/skio/group.py, lines 697-745).                    *)
(*                                                                         *)
(* The registered values are objects of a heap: an object has an identity  *)
(* id; an array has a base (0 for None), a number of bytes nbytes, and buf *)
(* names the buffer its elements are in.                                   *)
(***************************************************************************)
\* an ndarray, and an object that is not an array (nbytes is its getsizeof)
Arr(id, base, buf, nbytes) ==
    [t |-> "ndarray", id |-> id, base |-> base, buf |-> buf, nbytes |-> nbytes]
Obj(id, nbytes) ==
    [t |-> "object", id |-> id, base |-> 0, buf |-> 0, nbytes |-> nbytes]

\* a masked array: value.data is a new view of its buffer each time it is
\* read, value.mask is its mask array
Masked(id, data, mask) ==
    [t |-> "MaskedArray", id |-> id, data |-> data, mask |-> mask]

\* a = np.ones(2) and the views a[:], a[:1]; another array; a masked array
\* with its mask; a string; an empty array
Heap ==
    {Arr(1, 0, 1, 16), Arr(2, 1, 1, 16), Arr(3, 1, 1, 8), Arr(4, 0, 4, 8),
     Masked(5, Arr(6, 5, 6, 16), Arr(7, 0, 7, 2)), Obj(8, 50),
     Arr(9, 0, 9, 0)}

\* lines 716-723 and 739-741: the objects measured for a value
SizeItems(value) ==
    IF value.t = "MaskedArray" THEN {value.data, value.mask} ELSE {value}

\* the bytes of a buffer: those of the array it is named after
BufBytes(buf) ==
    (CHOOSE a \in UNION {SizeItems(value) : value \in Heap} : a.id = buf).nbytes

\* the sum of f over the set S
RECURSIVE SumBytes(_, _)
SumBytes(S, f) ==
    IF S = {} THEN 0
    ELSE LET x == CHOOSE x \in S : TRUE
         IN  f[x] + SumBytes(S \ {x}, f)

\* __sizeof__, lines 713-745: baseid is id(item), so that an item is counted
\* when its own identity was not seen and it has bytes
sizeof(vals, withdefault) ==
    IF \E key \in Iter(vals, withdefault) : key \notin DOMAIN vals
    THEN Raise("KeyError")
    ELSE LET items == UNION {SizeItems(vals[key]) : key \in DOMAIN vals}
             seen == {item.id : item \in {i \in items : i.nbytes # 0}}
         IN  Ok(PyInt(SumBytes(seen,
                 [id \in seen |->
                     (CHOOSE item \in items : item.id = id).nbytes])))

\* the keys of the registered objects
HeapKeys == {"10", "11", "12"}

\* a program with a Group in which objects of the heap are registered, a
\* masked array under one key at most (the identities of the views that
\* value.data makes for two keys depend on the allocator)
InitHeap ==
    /\ InitExt
    /\ cls_dtype = cls_dtype0
    /\ cls_attrs = cls_attrs0
    /\ inst = 1
    /\ \E registered \in (SUBSET HeapKeys) \ {{}} :
            values \in [registered -> Heap]
    /\ \A j, k \in DOMAIN values :
            (values[j].t = "MaskedArray" /\ values[k].t = "MaskedArray") =>
                j = k
    /\ readonly = cls_readonly
    /\ nonewkey = cls_nonewkey
    /\ wstack = <<>>
    /\ lastop = Call("new", "", None)
    /\ out = Ok(None)

\* out = self.__sizeof__()
Sizeof ==
    /\ inst > 0
    /\ lastop.op # "sizeof"
    /\ lastop' = Call("sizeof", "", None)
    /\ out' = sizeof(values, iterdefault)
    /\ UNCHANGED <<cls_dtype, cls_attrs, inst, values, readonly, nonewkey,
                   wstack, ext>>

NextHeap == Sizeof

SpecHeap == InitHeap /\ [][NextHeap]_vars

(***************************************************************************)
(* Two threads that run "with self._writeenabled():" on the same Group     *)
(* (src/skio/group.py, lines 747-770), one statement of the generator at a *)
(* time; the interpreter runs the statements of the threads in any order.  *)
(***************************************************************************)
\* the generator without its restoring statements
writeenabled_step_norestore(th, ro, nnk) ==
    [th |-> [th EXCEPT !.pc = th.pc + 1,
                       !.readonly = IF th.pc = 0 THEN ro ELSE th.readonly,
                       !.nonewkey = IF th.pc = 1 THEN nnk ELSE th.nonewkey],
     readonly |-> IF th.pc = 2 THEN FALSE ELSE ro,
     nonewkey |-> IF th.pc = 3 THEN th.nonewkey ELSE nnk]

\* the statement that the generator of a thread runs at position pc, on the
\* local variables th of the thread and the flags ro and nnk of self:
\*   0  readonly = self._readonly        (line 759)
\*   1  nonewkey = self._nonewkey        (line 760)
\*   2  self._readonly = False           (line 763)
\*   3  self._nonewkey = nonewkey        (line 764), then the yield
\*   4  self._readonly = readonly        (line 769)
\*   5  self._nonewkey = nonewkey        (line 770)
writeenabled_step(th, ro, nnk) ==
    [th |-> [th EXCEPT !.pc = th.pc + 1,
                       !.readonly = IF th.pc = 0 THEN ro ELSE th.readonly,
                       !.nonewkey = IF th.pc = 1 THEN nnk ELSE th.nonewkey],
     readonly |-> CASE th.pc = 2 -> FALSE
                    [] th.pc = 4 -> th.readonly
                    [] OTHER -> ro,
     nonewkey |-> IF th.pc \in {3, 5} THEN th.nonewkey ELSE nnk]

\* a program with a read-only Group (as File._Keyinfos) and two threads
InitShared ==
    /\ cls_dtype = cls_dtype0
    /\ cls_attrs = cls_attrs0
    /\ inst = 1
    /\ values = EmptyMap
    /\ readonly = TRUE
    /\ nonewkey \in BOOLEAN
    /\ wstack = <<>>
    /\ lastop = Call("new", "", None)
    /\ out = Ok(None)
    /\ InitExt

\* thread t runs its next statement of _writeenabled
ThreadStep(t) ==
    /\ threads[t].pc < 6
    /\ LET r == writeenabled_step(threads[t], readonly, nonewkey)
       IN  /\ threads' = [threads EXCEPT ![t] = r.th]
           /\ readonly' = r.readonly
           /\ nonewkey' = r.nonewkey
    /\ events' = Append(events, t)
    /\ lastop' = Call("step", t, None)
    /\ UNCHANGED <<cls_dtype, cls_attrs, inst, values, wstack, out, filevars,
                   newvars, g2, iterdefault>>

NextThreads == \E t \in Threads : ThreadStep(t)

SpecThreads == InitShared /\ [][NextThreads]_vars

(***************************************************************************)
(* Group.copy (src/skio/group.py, lines 439-453).                          *)
(*                                                                         *)
(* Group defines no __copy__ and no __deepcopy__: copy(self) makes a new   *)
(* instance with cls.__new__(cls) and updates its __dict__ with the        *)
(* __dict__ of self, so that the _values of the copy is the dict object of *)
(* self (g2.shared); deepcopy(self) updates it with a deep copy of that    *)
(* __dict__ (g2.values).  The classes were renamed when self was made, so  *)
(* the __new__ of the copy registers nothing.                              *)
(***************************************************************************)
\* g2._values
G2Values == IF g2.shared THEN values ELSE g2.values

\* a program with one Example instance, self
InitSelf ==
    /\ InitExt
    /\ cls_dtype = new_dtype(cls_dtype0, cls_attrs0)
    /\ cls_attrs = new_attrs(cls_attrs0)
    /\ inst = 1
    /\ \E mapping \in InitMappings :
            values = init(new_values(cls_attrs0, 1), mapping)
    /\ readonly = cls_readonly
    /\ nonewkey = cls_nonewkey
    /\ wstack = <<>>
    /\ lastop = Call("new", "", None)
    /\ out = Ok(None)

\* g2 = self.copy(deep)
Copy(deep) ==
    /\ inst > 0
    /\ ~g2.made
    /\ g2' = [made |-> TRUE, shared |-> ~deep,
              values |-> IF deep THEN values ELSE EmptyMap,
              readonly |-> readonly, nonewkey |-> nonewkey]
    /\ lastop' = Call("copy", IF deep THEN "deep" ELSE "shallow", None)
    /\ out' = Ok(None)
    /\ UNCHANGED <<cls_dtype, cls_attrs, inst, values, readonly, nonewkey,
                   wstack, filevars, newvars, threadvars, iterdefault>>

\* an operation on g2 has the outcome r: the dict that g2._values refers to
\* holds r.values
G2Apply(op, key, arg, r) ==
    /\ g2.made
    /\ IF g2.shared
       THEN values' = r.values /\ g2' = g2
       ELSE values' = values /\ g2' = [g2 EXCEPT !.values = r.values]
    /\ out' = [err |-> r.err, val |-> None]
    /\ lastop' = Call(op, key, arg)
    /\ UNCHANGED <<cls_dtype, cls_attrs, inst, readonly, nonewkey, wstack,
                   filevars, newvars, threadvars, iterdefault>>

\* g2[key] = arg
CopySet(key, arg) ==
    G2Apply("g2.set", key, arg,
            set(G2Values, g2.readonly, g2.nonewkey, cls_dtype, key, arg))

\* del g2[key]
CopyDelitem(key) ==
    G2Apply("g2.del", key, None, delitem(G2Values, g2.readonly, key))

\* g2.clear()
CopyClear == G2Apply("g2.clear", "", None, clear(G2Values, g2.readonly))

\* the keys given to the operations on self and on g2: one with a custom
\* setter, one with no declaration, one that holds a nested Group
CopyKeys == {"02", "10", "group"}

NextCopy ==
    \/ \E deep \in BOOLEAN : Copy(deep)
    \/ \E key \in CopyKeys : \E arg \in Inputs(key) : Set(key, arg)
    \/ \E key \in CopyKeys : Delitem(key)
    \/ Clear
    \/ \E key \in CopyKeys : \E arg \in Inputs(key) : CopySet(key, arg)
    \/ \E key \in CopyKeys : CopyDelitem(key)
    \/ CopyClear

SpecCopy == InitSelf /\ [][NextCopy]_vars

(***************************************************************************)
(* The enumerations that run inside "with self._iterall(...)"              *)
(* (src/skio/group.py, lines 484-597, 599-623 and 772-785).                *)
(***************************************************************************)
\* the enumerations with an include-defaults mode; values_raw, items_raw
\* and asdict take the argument default
EnumMethods ==
    {"keys_all", "values_all", "items_all", "values_raw", "items_raw", "asdict"}

\* method(default) on a Group whose _iterdefault is itd: the exception it
\* raises and _iterdefault afterwards.  _iterall sets the flag, and resets
\* it after its yield (lines 783-785): an exception of the block is thrown
\* into the generator at the yield and the reset does not run.
enumerate(vals, itd, method, default) ==
    IF method \in {"values_raw", "items_raw"} /\ ~default
    THEN [err |-> "ok", iterdefault |-> itd]
    ELSE LET mode == IF method = "asdict" THEN default ELSE TRUE
             results == {IF method = "keys_all" THEN Ok(None)
                         ELSE IF method \in {"values_raw", "items_raw"}
                         THEN get_raw(vals, key)
                         ELSE get(vals, key) : key \in Iter(vals, mode)}
             raised == {r \in results : r.err # "ok"}
         IN  IF raised = {} THEN [err |-> "ok", iterdefault |-> FALSE]
             ELSE [err |-> (CHOOSE r \in raised : TRUE).err,
                   iterdefault |-> mode]

\* a program with one Example01 instance, self, made from a mapping: the
\* values of the mapping are registered as they are
InitValues ==
    /\ InitExt
    /\ cls_dtype = cls_dtype0
    /\ cls_attrs = cls_attrs0
    /\ inst = 1
    /\ \E items \in Items(InitPairs \cup UpdatePairs) :
            values = init(EmptyMap, AsDict(items))
    /\ readonly = cls_readonly
    /\ nonewkey = cls_nonewkey
    /\ wstack = <<>>
    /\ lastop = Call("new", "", None)
    /\ out = Ok(None)

\* self.method(default)
Enumerate(method, default) ==
    /\ inst > 0
    /\ LET r == enumerate(values, iterdefault, method, default)
       IN  /\ iterdefault' = r.iterdefault
           /\ out' = [err |-> r.err, val |-> None]
    /\ lastop' = Call(method, IF default THEN "default" ELSE "", None)
    /\ UNCHANGED <<cls_dtype, cls_attrs, inst, values, readonly, nonewkey,
                   wstack, ext1>>

\* list(self): out.val.v is the number of keys that __iter__ gives
ListSelf ==
    /\ inst > 0
    /\ out' = Ok(PyInt(Cardinality(Iter(values, iterdefault))))
    /\ lastop' = Call("list", "", None)
    /\ UNCHANGED <<cls_dtype, cls_attrs, inst, values, readonly, nonewkey,
                   wstack, ext>>

NextIter ==
    \/ \E method \in EnumMethods : \E default \in BOOLEAN :
            Enumerate(method, default)
    \/ ListSelf
    \/ \E key \in {"01", "02"} : Delitem(key)

SpecIter == InitValues /\ [][NextIter]_vars

(***************************************************************************)
(* Properties.                                                             *)
(***************************************************************************)
\* the keys under which __new__ registers a nested Group for the first
\* instance of Example
NestedKeys == {cls_attrs0[a].rest : a \in KeyClasses(cls_attrs0)}

\* the key has a custom getter and setter, by its alias or by its own name
HasFunc(key) ==
    \/ key \in DOMAIN cls_funcbase /\ cls_funcbase[key] \in cls_funcs
    \/ key \notin DOMAIN cls_funcbase /\ key \in cls_funcs

\* C1: while _readonly is true, every call of set, __delitem__, clear and
\* update raises PermissionError and leaves the registered key/value mapping
\* as it was.
C1_ReadOnlyRejects ==
    [][(readonly /\ lastop'.op \in {"set", "del", "clear", "update"})
        => (out'.err = "PermissionError" /\ values' = values)]_vars

\* C1 witness: update was refused on a read-only Group that holds values.
C1_Witness ==
    /\ readonly
    /\ lastop.op = "update"
    /\ out.err = "PermissionError"
    /\ DOMAIN values # {}

\* C2: when the value registered at k is a Group, set(k, ...) and del k raise
\* PermissionError whatever _readonly and _nonewkey are, also inside a
\* _writeenabled block, and the same Group stays registered at k.
C2_GroupsNotOverwritable ==
    [][\A k \in KEYS :
        (/\ k \in DOMAIN values
         /\ values[k].t = "Group"
         /\ lastop'.op \in {"set", "del"}
         /\ lastop'.key = k)
        => (/\ out'.err = "PermissionError"
            /\ k \in DOMAIN values'
            /\ values'[k] = values[k])]_vars

\* C2 witness: del of the nested Group was refused inside a _writeenabled
\* block, with both flags false.
C2_Witness ==
    /\ lastop.op = "del"
    /\ lastop.key \in DOMAIN values
    /\ values[lastop.key].t = "Group"
    /\ out.err = "PermissionError"
    /\ ~readonly
    /\ ~nonewkey
    /\ wstack # <<>>

\* C3: every nested Group created at construction stays registered under
\* its key, after construction with any mapping and after any sequence of
\* set, del, clear and update (clear removes the other entries only).  The
\* first instance is the one __new__ creates nested Groups for.
C3_NestedGroupsStay ==
    inst = 1 =>
        \A k \in NestedKeys : k \in DOMAIN values /\ values[k] = GroupVal(1)

\* C4 as claimed: while _nonewkey is true and _readonly false, set(k, v)
\* raises PermissionError and registers nothing for a key without default,
\* declared type and registered value, and succeeds and stores the value for
\* a key that has a default or a registered value (succeeds: it is not
\* refused, and k is registered unless the setter or the type cast of k
\* rejects the value).
C4_NoNewKey_Claimed ==
    [][(nonewkey /\ ~readonly /\ lastop'.op = "set") =>
        LET k == lastop'.key
        IN  /\ k \notin (DOMAIN cls_default) \cup (DOMAIN cls_dtype)
                        \cup (DOMAIN values)
               => (out'.err = "PermissionError" /\ values' = values)
            /\ k \in (DOMAIN cls_default) \cup (DOMAIN values)
               => (/\ out'.err # "PermissionError"
                   /\ out'.err = "ok" => k \in DOMAIN values')]_vars

\* C4 as amended: a key without default, declared type and registered value
\* is refused with PermissionError and nothing is registered; a key that has
\* a default or a registered value that is no Group is never refused with
\* PermissionError, and when its setter and its type cast accept the value
\* the key is registered, with the value itself when the key has neither
\* setter nor declared type, and no other key changes.
C4_NoNewKey ==
    [][(nonewkey /\ ~readonly /\ lastop'.op = "set") =>
        LET k == lastop'.key
        IN  /\ k \notin (DOMAIN cls_default) \cup (DOMAIN cls_dtype)
                        \cup (DOMAIN values)
               => (out'.err = "PermissionError" /\ values' = values)
            /\ (/\ k \in (DOMAIN cls_default) \cup (DOMAIN values)
                /\ ~(k \in DOMAIN values /\ values[k].t = "Group"))
               => /\ out'.err # "PermissionError"
                  /\ out'.err = "ok" =>
                        /\ DOMAIN values' = (DOMAIN values) \cup {k}
                        /\ \A j \in (DOMAIN values) \ {k} :
                              values'[j] = values[j]
                        /\ (~HasFunc(k) /\ k \notin DOMAIN cls_dtype)
                              => values'[k] = lastop'.arg
                  /\ out'.err # "ok" => values' = values]_vars

\* C4 witness: under _nonewkey a new key was just refused while a key known
\* by its default alone is registered from an earlier set under the flag.
C4_Witness ==
    /\ nonewkey
    /\ ~readonly
    /\ lastop.op = "set"
    /\ lastop.key = "10"
    /\ out.err = "PermissionError"
    /\ "10" \notin DOMAIN values
    /\ "01" \in DOMAIN values

\* C5 as claimed: while _nonewkey is true, set(k, v) is accepted for a key
\* declared in _dtype alone (no default, no registered value).
C5_TypesAreKnown_Claimed ==
    [][(/\ nonewkey
        /\ ~readonly
        /\ lastop'.op = "set"
        /\ lastop'.key \in DOMAIN cls_dtype
        /\ lastop'.key \notin (DOMAIN cls_default) \cup (DOMAIN values))
        => out'.err # "PermissionError"]_vars

\* C5 as amended: the known keys of the no-new-key check are the keys of
\* _default and the registered keys; while _nonewkey is true and _readonly
\* false, set(k, v) raises PermissionError exactly when k is none of these
\* or holds a Group, so a key declared in _dtype alone is refused.
C5_KnownKeys ==
    [][(nonewkey /\ ~readonly /\ lastop'.op = "set") =>
        (out'.err = "PermissionError"
            <=> \/ lastop'.key \notin (DOMAIN cls_default) \cup (DOMAIN values)
                \/ (/\ lastop'.key \in DOMAIN values
                    /\ values[lastop'.key].t = "Group"))]_vars

\* C5 witness: set of the key "35", declared in _dtype alone, was refused
\* under _nonewkey.
C5_Witness ==
    /\ nonewkey
    /\ ~readonly
    /\ lastop.op = "set"
    /\ lastop.key = "35"
    /\ "35" \in DOMAIN cls_dtype
    /\ "35" \notin DOMAIN values
    /\ out.err = "PermissionError"

\* C6: when a _writeenabled block ends, normally or by an exception,
\* _readonly and _nonewkey have the values they had when it was entered.
C6_WriteEnabledRestores ==
    [][lastop'.op \in {"exit", "exit_raise"} =>
        (/\ readonly' = Head(wstack).readonly
         /\ nonewkey' = Head(wstack).nonewkey)]_vars

\* C7 as claimed: for a key k with a default, on a writable Group, a
\* successful set(k, v) followed at once by del k leaves k unregistered and
\* get(k) equal to the default.
C7_SetDelDefault_Claimed ==
    [][(/\ lastop.op = "set"
        /\ out.err = "ok"
        /\ lastop.key \in DOMAIN cls_default
        /\ ~readonly
        /\ lastop'.op = "del"
        /\ lastop'.key = lastop.key)
        => (/\ lastop.key \notin DOMAIN values'
            /\ get(values', lastop.key) = Ok(cls_default[lastop.key]))]_vars

\* C7 as amended: ... leaves k unregistered and the raw value of k equal to
\* the default; get(k) equals the default when k has no custom getter, and is
\* the result of the getter otherwise.
C7_SetDelDefault ==
    [][(/\ lastop.op = "set"
        /\ out.err = "ok"
        /\ lastop.key \in DOMAIN cls_default
        /\ ~readonly
        /\ lastop'.op = "del"
        /\ lastop'.key = lastop.key)
        => (/\ out'.err = "ok"
            /\ lastop.key \notin DOMAIN values'
            /\ \A j \in DOMAIN values' : values'[j] = values[j]
            /\ DOMAIN values' = (DOMAIN values) \ {lastop.key}
            /\ ~HasFunc(lastop.key)
                  => get(values', lastop.key) = Ok(cls_default[lastop.key])
            /\ HasFunc(lastop.key)
                  => get(values', lastop.key)
                       = Mul10(cls_default[lastop.key]))]_vars

\* C7 witness: on a writable Group del has just removed the registered value
\* of a key that has a default and no getter, and the Group holds other
\* values.
C7_Witness ==
    /\ ~readonly
    /\ lastop.op = "del"
    /\ lastop.key = "01"
    /\ out.err = "ok"
    /\ "01" \notin DOMAIN values
    /\ "02" \in DOMAIN values

\* C8: get(k) returns the result of the custom getter of k (found by the
\* alias of k or by k itself) when there is one; else the registered value
\* when k is registered; else the default; and raises KeyError when k has
\* neither.  A registered value goes before the default.
C8_GetPrecedence ==
    lastop.op = "get" =>
        LET k == lastop.key
        IN  IF k = "02" THEN
                out = (IF "02" \in DOMAIN values
                       THEN Ok([t |-> values["02"].t, v |-> values["02"].v * 10])
                       ELSE Ok(PyFloat(210)))
            ELSE IF k = "f12" THEN out = Ok(PyInt(10))
            ELSE IF k \in DOMAIN values THEN out = Ok(values[k])
            ELSE IF k \in DOMAIN cls_default THEN out = Ok(cls_default[k])
            ELSE out.err = "KeyError"

\* C8 witness: get returned the registered value of a key whose default is
\* another value.
C8_Witness ==
    /\ lastop.op = "get"
    /\ lastop.key = "01"
    /\ "01" \in DOMAIN values
    /\ values["01"] # cls_default["01"]
    /\ out = Ok(values["01"])

\* The registered values of an instance constructed empty on which set(k, v)
\* is then called for each pair of the mapping (the pairs have distinct
\* keys, so their order does not matter); err is the first exception.
RECURSIVE SetEach(_, _, _)
SetEach(vals, dtypes, mapping) ==
    IF DOMAIN mapping = {} THEN Done(vals)
    ELSE LET k == CHOOSE k \in DOMAIN mapping : TRUE
             r == set(vals, cls_readonly, cls_nonewkey, dtypes, k, mapping[k])
         IN  IF r.err # "ok" THEN r
             ELSE SetEach(r.values, dtypes, Del(mapping, k))

\* C9: constructing with a mapping registers the values that constructing
\* empty and calling set(k, v) for each pair registers.
C9_InitBySet ==
    [][\A mapping \in InitMappings :
        New(mapping) =>
            LET r == SetEach(new_values(cls_attrs, inst + 1),
                             new_dtype(cls_dtype, cls_attrs), mapping)
            IN  r.err = "ok" => values' = r.values]_vars

\* C10: the nested Groups instantiated at construction are not registered:
\* they are in keys_all() but not in keys(), and len() does not count them.
C10_NestedNotRegistered ==
    inst = 1 =>
        \A k \in NestedKeys :
            /\ k \in keys_all(values)
            /\ k \notin keys(values)
            /\ len(values) = Cardinality((DOMAIN values) \ NestedKeys)

\* C11: every construction of Example, the first one and every later one,
\* gives the new instance a nested Group of its own under the key of each
\* class named _Key<name> (its parent is the new instance), and registers
\* nothing for a class whose name does not start with _Key.
C11_EveryInstanceNested ==
    [][New(EmptyMap) =>
        /\ \A k \in NestedKeys :
            k \in DOMAIN values' /\ values'[k] = GroupVal(inst')
        /\ \A a \in DOMAIN cls_attrs0 :
            a \notin KeyClasses(cls_attrs0) =>
                cls_attrs0[a].rest \notin DOMAIN values']_vars

\* set(k, v) for pair i of source, called on the Group as it is before update
\* (the pairs of a source have distinct keys and the outcome of set(k, v)
\* depends on the entry of k alone)
PairSet(source, i) ==
    set(values, readonly, nonewkey, cls_dtype, source[i][1], source[i][2])

\* the first pair of source whose set raises another exception than
\* PermissionError, Len(source) + 1 when there is none
FirstError(source) ==
    LET failing == {i \in DOMAIN source :
                        PairSet(source, i).err \notin {"ok", "PermissionError"}}
    IN  IF failing = {} THEN Len(source) + 1
        ELSE CHOOSE i \in failing : \A j \in failing : i <= j

\* key k has the same entry, or no entry, in both mappings
SameEntry(k, before, after) ==
    /\ k \in DOMAIN after <=> k \in DOMAIN before
    /\ k \in DOMAIN before => after[k] = before[k]

\* C12 as claimed: update on a Group that is not read-only calls set for
\* every pair of source: a pair whose set raises PermissionError is skipped
\* and every other pair is applied.
C12_UpdateAppliesAll_Claimed ==
    (inst > 0 /\ ~readonly) =>
        \A source \in Sources :
            LET after == update(values, readonly, nonewkey, cls_dtype, source)
            IN  \A i \in DOMAIN source :
                    LET k == source[i][1]
                        r == PairSet(source, i)
                    IN  /\ r.err = "PermissionError" =>
                            SameEntry(k, values, after.values)
                        /\ r.err = "ok" =>
                            /\ k \in DOMAIN after.values
                            /\ after.values[k] = r.values[k]

\* C12 as amended: update on a Group that is not read-only calls set for the
\* pairs of source in order, up to the first pair whose set raises another
\* exception than PermissionError, which update raises; of the pairs before
\* it (all pairs when there is none) those whose set raises PermissionError
\* are skipped and the others are applied; the pairs after it and the keys
\* that are not in source are left alone.
C12_UpdateSkipsDenied ==
    (inst > 0 /\ ~readonly) =>
        \A source \in Sources :
            LET after == update(values, readonly, nonewkey, cls_dtype, source)
                first == FirstError(source)
            IN  /\ after.err = IF first > Len(source) THEN "ok"
                               ELSE PairSet(source, first).err
                /\ \A i \in DOMAIN source :
                    LET k == source[i][1]
                        r == PairSet(source, i)
                    IN  IF i < first /\ r.err = "ok"
                        THEN /\ k \in DOMAIN after.values
                             /\ after.values[k] = r.values[k]
                        ELSE SameEntry(k, values, after.values)
                /\ \A k \in KEYS \ {source[i][1] : i \in DOMAIN source} :
                    SameEntry(k, values, after.values)

\* C12 witness: update ended without an exception on a Group with a nested
\* Group and _nonewkey true: it stored 2 * 10 for the key "02", registered
\* no "10" and left the nested Group.
C12_Witness ==
    /\ lastop.op = "update"
    /\ out.err = "ok"
    /\ nonewkey
    /\ ~readonly
    /\ DOMAIN values = {"02", "group"}
    /\ values["02"] = PyInt(20)
    /\ values["group"].t = "Group"

\* the key is declared with an array type and a number of dimensions
HasRank(key) ==
    /\ key \in DOMAIN cls_dtype
    /\ cls_dtype[key].base \in ArrayTypes
    /\ "ndim" \in DOMAIN cls_dtype[key].kwargs

\* C13: set(k, a) for a key declared with an array type and ndim, and an
\* array a whose number of dimensions is not ndim, lower or higher, raises
\* ValueError (the policy checks passed).
C13_RankMustMatch ==
    [][(/\ lastop'.op = "set"
        /\ HasRank(lastop'.key)
        /\ lastop'.arg.t \in ArrayTypes
        /\ lastop'.arg.v # cls_dtype[lastop'.key].kwargs.ndim
        /\ out'.err # "PermissionError")
        => out'.err = "ValueError"]_vars

\* C14: a set call that raises, whatever the exception (PermissionError of
\* a policy check, ValueError of the rank check, the exception of the custom
\* setter or of the type cast), leaves the registered key/value mapping as
\* it was before the call.
C14_SetAllOrNothing ==
    [][(lastop'.op = "set" /\ out'.err # "ok") => values' = values]_vars

\* C14 witness: set of an array of one dimension for the key "03" raised the
\* ValueError of the rank check, and the array registered before is still
\* there.
C14_Witness ==
    /\ lastop.op = "set"
    /\ lastop.key = "03"
    /\ lastop.arg = PyArray("ndarray", 1, "float64")
    /\ out.err = "ValueError"
    /\ "03" \in DOMAIN values
    /\ values["03"] = PyArray("ndarray", 2, "float64")

\* the key has a declared type that is not an array type, with or without
\* named arguments
HasPlainType(key) ==
    /\ key \in DOMAIN cls_dtype
    /\ cls_dtype[key].base \notin ArrayTypes

\* C15: for a key with a declared non-array type, with or without named
\* arguments, and no custom setter, a set that passes the policy checks
\* stores None as None, stores a value that is already an instance of the
\* type as it is, and stores any other value as the type's constructor casts
\* it (raising what the constructor raises).
C15_CastOnlyWhenNeeded ==
    [][(/\ lastop'.op = "set"
        /\ HasPlainType(lastop'.key)
        /\ ~HasFunc(lastop'.key)
        /\ out'.err # "PermissionError")
        => LET k == lastop'.key
               arg == lastop'.arg
               cast == CallType(cls_dtype[k].base, cls_dtype[k].kwargs, arg)
           IN  IF arg = None \/ arg.t = cls_dtype[k].base
               THEN out'.err = "ok" /\ k \in DOMAIN values' /\ values'[k] = arg
               ELSE /\ out'.err = cast.err
                    /\ cast.err = "ok" =>
                        k \in DOMAIN values' /\ values'[k] = cast.val]_vars

\* C16: entering a _writeenabled block with its default arguments
\* (nonewkey=False) on a Group whose _nonewkey is true suspends the policy:
\* a set made inside the block on a key that is not a known key is not
\* refused, and registers the key unless its setter or its cast raises.
C16_NoNewKeySuspended ==
    [][(nonewkey /\ EnterWriteEnabled(FALSE)) =>
        \A key \in KEYS \ keys_all(values') :
            \A arg \in Inputs(key) :
                LET r == set(values', readonly', nonewkey', cls_dtype', key, arg)
                IN  /\ r.err # "PermissionError"
                    /\ r.err = "ok" => key \in DOMAIN r.values]_vars

\* the range the caller of intencode asks for: rangemin and rangemax, the
\* limits of the integer type where they are absent or beyond them
AskedRange(args) ==
    LET info == iinfo(args.inttype)
    IN  [min |-> IF args.rangemin.some /\ args.rangemin.v > info.min
                 THEN args.rangemin.v ELSE info.min,
         max |-> IF args.rangemax.some /\ args.rangemax.v < info.max
                 THEN args.rangemax.v ELSE info.max]

\* the factor arguments of the call are the default ones
DefaultFactor(args) ==
    /\ ~args.intfactor
    /\ ~args.invfactor
    /\ args.maxfactor = Float(0)
    /\ args.forcefactor = Float(0)

\* C17: for every array, integer type, rangemin < rangemax and keepsign, with
\* the other arguments at their defaults, every element that intencode
\* returns for a valid element of the array lies within [rangemin, rangemax].
C17_EncodedInRange ==
    (/\ lastop.op = "intencode"
     /\ out.err = "ok"
     /\ DefaultFactor(lastop.arg)
     /\ AskedRange(lastop.arg).min < AskedRange(lastop.arg).max)
    => \A i \in DOMAIN lastop.arg.data :
        ~IsNaN(lastop.arg.data[i]) =>
            /\ out.val.data[i] >= AskedRange(lastop.arg).min
            /\ out.val.data[i] <= AskedRange(lastop.arg).max

\* what intencode(**args) returns
Encoded(args) ==
    intencode(args.data, args.inttype, args.invalidvalue, args.rangemin,
              args.rangemax, args.keepsign, args.intfactor, args.invfactor,
              args.maxfactor, args.forcefactor, args.intround)

\* all the optional arguments of the call, intround apart, are the default
\* ones
DefaultArgs(args) ==
    /\ args.invalidvalue = InvFalse
    /\ ~args.rangemin.some
    /\ ~args.rangemax.some
    /\ args.keepsign
    /\ DefaultFactor(args)

\* C18: for every float array d and integer type, with the default
\* arguments, intdecode(encoded, factor) of the (encoded, factor) that
\* intencode(d) returned recovers every valid element of d within
\* 0.5 * factor when intround is True and within 1.0 * factor when it is
\* False.
C18_RoundTrip ==
    (/\ lastop.op = "intdecode of intencode"
     /\ out.err = "ok"
     /\ DefaultArgs(lastop.arg))
    => LET d == lastop.arg.data
           factor == Encoded(lastop.arg).val.factor
           bound == IF lastop.arg.intround THEN FMul(Frac(1, 2), factor)
                    ELSE factor
       IN  \A i \in DOMAIN d :
            ~IsNaN(d[i]) =>
                /\ ~IsNaN(out.val.data[i])
                /\ ~FLess(bound, FAbs(FSub(out.val.data[i], d[i])))

\* C19: when data with NaN entries is encoded with a sentinel (None, or an
\* integer) and the result is decoded with the same sentinel, the decoded
\* array is NaN at exactly the positions where data is NaN: no valid element
\* was encoded to the sentinel.
C19_SentinelRoundTrip ==
    (/\ lastop.op = "intdecode of intencode"
     /\ out.err = "ok"
     /\ lastop.arg.invalidvalue.kind # "False"
     /\ DefaultFactor(lastop.arg)
     /\ \E i \in DOMAIN lastop.arg.data : IsNaN(lastop.arg.data[i]))
    => \A i \in DOMAIN lastop.arg.data :
        IsNaN(out.val.data[i]) <=> IsNaN(lastop.arg.data[i])

\* C20: in the array intencode returns, with invalidvalue None the element
\* of every invalid entry is the minimum of a signed type and the maximum of
\* an unsigned type; with an integer invalidvalue, 0 included, it is that
\* integer and the array is a plain ndarray; with False the array is a
\* MaskedArray exactly when data has an invalid entry, and only the invalid
\* entries are masked.
C20_InvalidValuePolicy ==
    (lastop.op = "intencode" /\ out.err = "ok")
    => LET args == lastop.arg
           info == iinfo(args.inttype)
           invalid == {i \in DOMAIN args.data : IsNaN(args.data[i])}
       IN  CASE args.invalidvalue.kind = "None" ->
                    \A i \in invalid :
                        out.val.data[i] = IF info.min < 0 THEN info.min
                                          ELSE info.max
             [] args.invalidvalue.kind = "int" ->
                    /\ out.val.cls = "ndarray"
                    /\ \A i \in invalid :
                        out.val.data[i] = args.invalidvalue.v
             [] args.invalidvalue.kind = "False" ->
                    /\ out.val.cls = "MaskedArray" <=> invalid # {}
                    /\ \A i \in DOMAIN args.data :
                        out.val.mask[i] <=> i \in invalid

\* C21: intdecode with masked true and an invalid value or an invalid range
\* returns a masked array whose mask is true at exactly the positions whose
\* input equals the invalid value (0 included) or is outside the open
\* interval (low, high), and false at every other position.
C21_MaskMarksInvalid ==
    (/\ lastop.op = "intdecode"
     /\ lastop.arg.masked
     /\ lastop.arg.invalid.kind # "None"
     /\ out.err = "ok") =>
        LET data == lastop.arg.data
            invalid == lastop.arg.invalid
        IN  /\ out.val.cls = "MaskedArray"
            /\ \A i \in DOMAIN data :
                out.val.mask[i] =
                    IF invalid.kind = "int" THEN data[i] = invalid.lo
                    ELSE ~(data[i] > invalid.lo /\ data[i] < invalid.hi)

\* C22: the array intdecode returns has the element type dtype, whatever the
\* arguments invalid and masked, when dtype is a floating type; intdecode
\* raises ValueError when it is not.
C22_DecodedElementType ==
    lastop.op = "intdecode" =>
        IF lastop.arg.dtype \in FloatTypes
        THEN out.err = "ok" /\ out.val.dtype = lastop.arg.dtype
        ELSE out.err = "ValueError"

\* the load<ext> drivers of the File subclass, in the order of its class body
Drivers == SelectSeq(tdict, LAMBDA attr : IsLoadExt(attr.name))

\* the index of the first driver that does not raise FileFormatError, and
\* Len(drivers) + 1 when all do
FirstAccepting(drivers) ==
    IF \A i \in DOMAIN drivers : drivers[i].raises = "FileFormatError"
    THEN Len(drivers) + 1
    ELSE CHOOSE i \in DOMAIN drivers :
            /\ drivers[i].raises # "FileFormatError"
            /\ \A j \in 1..(i - 1) : drivers[j].raises = "FileFormatError"

\* C23: when load(filename) is over, the drivers load<ext> of the class were
\* called in order up to the first one that did not raise FileFormatError,
\* and no other; load returned when that driver returned, and did not return
\* normally when all the drivers raised FileFormatError.
C23_LoadTriesDrivers ==
    lastop.op = "load" =>
        LET first == FirstAccepting(Drivers)
            last == IF first > Len(Drivers) THEN Len(Drivers) ELSE first
        IN  /\ loadcalls = [i \in 1..last |-> Drivers[i].name]
            /\ (first <= Len(Drivers) /\ Drivers[first].raises = "ok") =>
                    out.err = "ok"
            /\ (Drivers # <<>> /\ first > Len(Drivers)) => out.err # "ok"

\* C25: the schema of a class is the one its class statement made: no
\* construction and no operation on an instance changes the _dtype map.
C25_SchemaFixed == cls_dtype = cls_dtype0

\* C24: a nested Group is linked to the instance under construction before
\* its own __init__ runs and before __new__ returns: the parent that its
\* __init__ saw, and the parent it has once registered, are that instance.
C24_ParentBeforeInit ==
    /\ (instance # NoInstance /\ IsGroupBase(instance.base)) =>
            instance.seen = "self"
    /\ \A i \in DOMAIN nested :
            IsGroupBase(nested[i].base) =>
                nested[i].seen = "self" /\ nested[i].parent = "self"

\* C26: with intfactor, and no maxfactor and no forcefactor, the factor that
\* intencode returns is an integer; it is not less than the real factor when
\* the factor is not inverted, and is positive and not greater than the
\* inverse of the real factor with invfactor; every element returned for a
\* valid element of the array lies within [rangemin, rangemax].
C26_IntegerFactorSafe ==
    (/\ lastop.op = "intencode"
     /\ out.err = "ok"
     /\ lastop.arg.intfactor
     /\ lastop.arg.maxfactor = Float(0)
     /\ lastop.arg.forcefactor = Float(0)) =>
        LET args == lastop.arg
            rng == EncodeRange(args.data, args.inttype, args.invalidvalue,
                               args.rangemin, args.rangemax, args.keepsign)
            real == BestFactor(args.data, rng.rangemin, rng.rangemax,
                               rng.keepsign).val
            factor == out.val.factor
        IN  /\ factor[2] = 1
            /\ IF args.invfactor
               THEN /\ FLess(Float(0), factor)
                    /\ ~FLess(FDiv(Float(1), real), factor)
               ELSE ~FLess(factor, real)
            /\ \A i \in DOMAIN args.data :
                ~IsNaN(args.data[i]) =>
                    /\ out.val.data[i] >= AskedRange(args).min
                    /\ out.val.data[i] <= AskedRange(args).max

\* C27: __sizeof__ adds the bytes of a buffer to the total once at most: the
\* total is not greater than the bytes of the buffers that hold the elements
\* of the registered arrays (the data and the mask of a masked array
\* included), each taken once, plus the sizes of the other registered
\* objects, each taken once.
C27_BuffersCountedOnce ==
    (lastop.op = "sizeof" /\ out.err = "ok") =>
        LET items == UNION {SizeItems(values[key]) : key \in DOMAIN values}
            bufs == {item.buf : item \in {i \in items : i.t = "ndarray"}}
            objs == {item.id : item \in {i \in items : i.t = "object"}}
        IN  out.val.v <= SumBytes(bufs, [buf \in bufs |-> BufBytes(buf)])
                         + SumBytes(objs, [id \in objs |-> BufBytes(id)])

\* the order of the statements when thread u runs its whole block after
\* thread t has left its own, when u runs its whole block inside the block
\* of t, and when t enters, u enters, t leaves and u leaves
Sequential(t, u) == [i \in 1..12 |-> IF i <= 6 THEN t ELSE u]
NestedIn(t, u) == [i \in 1..12 |-> IF i \in 5..10 THEN u ELSE t]
Interleaved(t, u) == [i \in 1..12 |-> IF i \in (1..4) \cup {9, 10} THEN t ELSE u]

\* C28: two threads have each run a _writeenabled block on a read-only
\* Group, with no lock.  When one block ran after the other or inside the
\* other, the Group is read-only again; when the threads entered one after
\* the other and left in the same order, the Group is left writable.
C28_UnlockedOverride ==
    (\A t \in Threads : threads[t].pc = 6) =>
        \A t, u \in Threads :
            t # u =>
                /\ events \in {Sequential(t, u), NestedIn(t, u)} => readonly
                /\ events = Interleaved(t, u) => ~readonly

\* C28 witness: thread A entered, thread B entered, A left, B left, and the
\* Group is writable.
C28_Witness ==
    /\ \A t \in Threads : threads[t].pc = 6
    /\ events = Interleaved("A", "B")
    /\ ~readonly

\* C29: after g2 = self.copy(deep), deep or not, set, del and clear on g2
\* leave the keys and the values registered in self as they are, and set,
\* del and clear on self leave those registered in g2 as they are.
C29_CopyIsSeparate ==
    [][/\ lastop'.op \in {"g2.set", "g2.del", "g2.clear"} => values' = values
       /\ (g2.made /\ lastop'.op \in {"set", "del", "clear"}) =>
            G2Values' = G2Values]_vars

\* C30: after keys_all, values_all, items_all, values_raw, items_raw or
\* asdict has returned or has raised, the keys that __iter__ gives (to plain
\* iteration and to __sizeof__) are the registered keys.
C30_IterModeConfined ==
    lastop.op \in EnumMethods => Iter(values, iterdefault) = DOMAIN values

====
